---- MODULE Spec2Model ----
(***************************************************************************)
(* A model of pokedex-dictgen: the DexId type (index.rs), the page        *)
(* extractor read_mon with its inline-style and image-source helpers       *)
(* (mon.rs), the image cache (image.rs), the fetch cache (fetcher.rs) and  *)
(* the parallel driver (main.rs).                                          *)
(***************************************************************************)
EXTENDS Integers, Sequences, FiniteSets, TLC

VARIABLES
    dexId,      \* the DexId value at hand (a u32, as two 16-bit limbs)
    dexStr,     \* the string at hand: an input, or the last Display output
    dexStrOf,   \* Some(id) when dexStr is the Display output of id
    dexParsed,  \* Some(result) of the last from_str on dexStr
    dexOp,      \* the last prev()/next() call: its argument and its outcome
    dexSteps    \* number of prev()/next() calls made so far

dexVars == <<dexId, dexStr, dexStrOf, dexParsed, dexOp, dexSteps>>

VARIABLES
    styleIn,    \* the style attribute string handed to parse_simple_style_attr
    styleOut    \* Some(map) once parse_simple_style_attr has returned

styleVars == <<styleIn, styleOut>>

VARIABLES
    thumbIn,    \* the URL handed to get_image_thumbnail_origin
    thumbOut    \* Some(result) once get_image_thumbnail_origin has returned

thumbVars == <<thumbIn, thumbOut>>

VARIABLES
    imgAttrs,   \* the <img> node: its srcset and src attributes (None if absent)
    imgBase,    \* the base URL handed to get_highest_quality_src
    imgFind,    \* its find_thumb_origin flag
    imgOut      \* Some(result) once get_highest_quality_src has returned

srcVars == <<imgAttrs, imgBase, imgFind, imgOut>>

VARIABLES
    pageStatus,     \* per page of the index: pending, extracting, ok, failed,
                    \* aborted (cut off while extracting), dropped (never started)
    wk,             \* per worker thread: where it is in read_mon and its locals
    fetchFiles,     \* data/fetch_cache: per cache path, None or Some(contents)
    imageFiles,     \* data/images: the names of the files that exist
    clientLock,     \* Fetcher.client: None, or Some(worker holding the mutex)
    exited,         \* std::process::exit has been called
    dictWritten,    \* main has written ddk/Dictionary.xml
    netFetches,     \* per cache path: number of requests sent to the server
    imgWrites,      \* per image URL: number of files written to data/images for it
    fetchReturned,  \* per cache path: the data successful Fetcher::get calls returned
    imgReturned,    \* per image URL: the names successful ImageCache::get calls returned
    imgCalls        \* number of ImageCache::get calls made so far

runVars == <<pageStatus, wk, fetchFiles, imageFiles, clientLock, exited, dictWritten,
             netFetches, imgWrites, fetchReturned, imgReturned, imgCalls>>

VARIABLES
    monDoc,     \* the page handed to read_mon: what each of its lookups finds
    monCells,   \* the cells of the page's image box
    monOut      \* Some(result) once read_mon has returned

monVars == <<monDoc, monCells, monOut>>

VARIABLES
    fixLinks,   \* the <a> elements of the subtree handed to fix_links: their attributes
    fixImgs,    \* its <img> elements: their attributes
    fixBase,    \* the base URL
    fixHq,      \* config.hq_body_images
    fixCache,   \* what ImageCache::get does with a URL that has an extension
    fixOut      \* Some(result) once fix_links has returned

fixVars == <<fixLinks, fixImgs, fixBase, fixHq, fixCache, fixOut>>

VARIABLES
    rowTexts,   \* the text of each element child of the info box tbody
    rowOut      \* Some(header, top, extra) once the rows have been sorted

rowVars == <<rowTexts, rowOut>>

VARIABLES
    catNodes,   \* the children of the category item
    catOut      \* Some(categories) once they have been collected

catVars == <<catNodes, catOut>>

VARIABLES
    galRows,    \* the rows of the image box: each a sequence of cells
    galOut      \* Some(result) once the images have been collected

galVars == <<galRows, galOut>>

VARIABLES
    renFlags,   \* the flex flag of each image of a MonEntry
    renOut      \* Some(markup) once generate_mon has written the images

renVars == <<renFlags, renOut>>

VARIABLES
    bodyNodes,  \* the children of .mw-parser-output
    bodyMax,    \* config.max_body_sections
    bodyOut     \* Some(summary, body) once the children have been walked

bodyVars == <<bodyNodes, bodyMax, bodyOut>>

VARIABLES
    escIn,      \* the string handed to XhtmlEscaped
    escOut      \* Some(text-mode output, attribute-mode output)

escVars == <<escIn, escOut>>

VARIABLES
    romN,       \* a generation number
    romText,    \* Some(numerals) once roman_numerals has written it
    romOut      \* Some(result) once read_index has read the heading

romVars == <<romN, romText, romOut>>

vars == <<dexVars, styleVars, thumbVars, srcVars, runVars, monVars, fixVars,
          rowVars, catVars, galVars, renVars, bodyVars, escVars,
    romVars>>

\* the variables each component leaves alone
notDex == <<styleVars, thumbVars, srcVars, runVars, monVars, fixVars,
            rowVars, catVars, galVars, renVars, bodyVars, escVars,
    romVars>>
notStyle == <<dexVars, thumbVars, srcVars, runVars, monVars, fixVars,
              rowVars, catVars, galVars, renVars, bodyVars, escVars,
    romVars>>
notThumb == <<dexVars, styleVars, srcVars, runVars, monVars, fixVars,
              rowVars, catVars, galVars, renVars, bodyVars, escVars,
    romVars>>
notSrc == <<dexVars, styleVars, thumbVars, runVars, monVars, fixVars,
            rowVars, catVars, galVars, renVars, bodyVars, escVars,
    romVars>>
notRun == <<dexVars, styleVars, thumbVars, srcVars, monVars, fixVars,
            rowVars, catVars, galVars, renVars, bodyVars, escVars,
    romVars>>
notMon == <<dexVars, styleVars, thumbVars, srcVars, runVars, fixVars,
            rowVars, catVars, galVars, renVars, bodyVars, escVars,
    romVars>>
notFix == <<dexVars, styleVars, thumbVars, srcVars, runVars, monVars,
            rowVars, catVars, galVars, renVars, bodyVars, escVars,
    romVars>>
notRow == <<dexVars, styleVars, thumbVars, srcVars, runVars, monVars,
            fixVars, catVars, galVars, renVars, bodyVars, escVars,
    romVars>>
notCat == <<dexVars, styleVars, thumbVars, srcVars, runVars, monVars,
            fixVars, rowVars, galVars, renVars, bodyVars, escVars,
    romVars>>
notGal == <<dexVars, styleVars, thumbVars, srcVars, runVars, monVars,
            fixVars, rowVars, catVars, renVars, bodyVars, escVars,
    romVars>>
notRen == <<dexVars, styleVars, thumbVars, srcVars, runVars, monVars,
            fixVars, rowVars, catVars, galVars, bodyVars, escVars,
    romVars>>
notBody == <<dexVars, styleVars, thumbVars, srcVars, runVars, monVars,
             fixVars, rowVars, catVars, galVars, renVars, escVars,
    romVars>>
notEsc == <<dexVars, styleVars, thumbVars, srcVars, runVars, monVars,
            fixVars, rowVars, catVars, galVars, renVars, bodyVars,
    romVars>>
notRom == <<dexVars, styleVars, thumbVars, srcVars, runVars, monVars,
            fixVars, rowVars, catVars, galVars, renVars, bodyVars, escVars>>

None == <<>>
Some(v) == <<v>>

(***************************************************************************)
(* u32 arithmetic.  A u32 is kept as two 16-bit limbs so that values up to  *)
(* u32::MAX, and the overflow at u32::MAX, are represented exactly.        *)
(***************************************************************************)
Half == 2^16

U32Of(n) == [hi |-> (n \div Half) % Half, lo |-> n % Half]
U32Zero == [hi |-> 0, lo |-> 0]
U32Max == [hi |-> Half - 1, lo |-> Half - 1]

U32Gt1(x) == x.hi > 0 \/ x.lo > 1

\* x + 1 modulo 2^32
U32WrappingInc(x) ==
    IF x.lo + 1 < Half THEN [hi |-> x.hi, lo |-> x.lo + 1]
    ELSE [hi |-> (x.hi + 1) % Half, lo |-> 0]

\* x - 1, for x > 0
U32Dec(x) ==
    IF x.lo > 0 THEN [hi |-> x.hi, lo |-> x.lo - 1]
    ELSE [hi |-> x.hi - 1, lo |-> Half - 1]

\* quotient and remainder of x by 10
U32Div10(x) ==
    [hi |-> x.hi \div 10, lo |-> ((x.hi % 10) * Half + x.lo) \div 10]
U32Rem10(x) == ((x.hi % 10) * Half + x.lo) % 10

\* checked x * 10 + d: None on overflow of the u32
U32CheckedMul10Add(x, d) ==
    LET l == x.lo * 10 + d
        h == x.hi * 10 + (l \div Half)
    IN  IF h >= Half THEN None ELSE Some([hi |-> h, lo |-> l % Half])

DigitChars == <<"0", "1", "2", "3", "4", "5", "6", "7", "8", "9">>
IsDigit(c) == \E i \in 1..10 : DigitChars[i] = c
DigitVal(c) == (CHOOSE i \in 1..10 : DigitChars[i] = c) - 1

\* the decimal digits of x, most significant first; "0" for zero
RECURSIVE U32Digits(_)
U32Digits(x) ==
    IF x.hi = 0 /\ x.lo < 10 THEN <<DigitChars[x.lo + 1]>>
    ELSE Append(U32Digits(U32Div10(x)), DigitChars[U32Rem10(x) + 1])

\* zero padding to a minimum width, as the {:0w} format flag does
RECURSIVE ZeroPad(_, _)
ZeroPad(ds, w) == IF Len(ds) >= w THEN ds ELSE ZeroPad(<<"0">> \o ds, w)

\* u32::from_str: an optional '+', then one or more digits, overflow checked
RECURSIVE U32Accumulate(_, _)
U32Accumulate(acc, s) ==
    IF s = <<>> THEN [ok |-> TRUE, val |-> acc, err |-> ""]
    ELSE IF ~IsDigit(Head(s)) THEN [ok |-> FALSE, val |-> U32Zero, err |-> "InvalidDigit"]
    ELSE LET r == U32CheckedMul10Add(acc, DigitVal(Head(s)))
         IN  IF r = None THEN [ok |-> FALSE, val |-> U32Zero, err |-> "PosOverflow"]
             ELSE U32Accumulate(r[1], Tail(s))

U32FromStr(s) ==
    IF s = <<>> THEN [ok |-> FALSE, val |-> U32Zero, err |-> "Empty"]
    ELSE IF s \in {<<"+">>, <<"-">>} THEN [ok |-> FALSE, val |-> U32Zero, err |-> "InvalidDigit"]
    ELSE IF Head(s) = "+" THEN U32Accumulate(U32Zero, Tail(s))
    ELSE U32Accumulate(U32Zero, s)

(***************************************************************************)
(* DexId (index.rs)                                                        *)
(***************************************************************************)
PadWidth == 4

StripPrefixHash(s) == IF s # <<>> /\ Head(s) = "#" THEN Tail(s) ELSE s

\* a from_str that forgets to strip the marker
DexFromStrKeepsMarker(s) == U32FromStr(s)

\* impl FromStr for DexId
DexFromStr(s) == U32FromStr(StripPrefixHash(s))

\* impl Display for DexId: write!(f, "#{:04}", self.0)
DexDisplay(x) == <<"#">> \o ZeroPad(U32Digits(x), PadWidth)

\* DexId::prev
DexPrev(x) == IF U32Gt1(x) THEN Some(U32Dec(x)) ELSE None

\* DexId::next: self.0 + 1.  At u32::MAX the addition overflows: a build with
\* overflow checks panics, a build without them wraps to 0.
DexNextOutcomes(x) ==
    IF x = U32Max
    THEN {[panicked |-> TRUE, val |-> U32Zero], [panicked |-> FALSE, val |-> U32WrappingInc(x)]}
    ELSE {[panicked |-> FALSE, val |-> U32WrappingInc(x)]}

MaxDexSmall == 40
MaxDexSteps == 2

DexInputs ==
    {U32Of(n) : n \in 1..MaxDexSmall}
    \cup {U32Of(n) : n \in {999, 9999, 10000, 65535, 65536, 1234567}}
    \cup {U32Dec(U32Max), U32Max}

DexStrInputs ==
    { <<>>, <<"#">>, <<"7">>, <<"#", "7">>, <<"+", "7">>, <<"-", "7">>,
      <<"#", "0", "0", "0", "7">>, <<"#", "#", "7">>, <<"7", "x">>,
      <<"4", "2", "9", "4", "9", "6", "7", "2", "9", "5">>,
      <<"4", "2", "9", "4", "9", "6", "7", "2", "9", "6">> }

DexInit ==
    /\ dexId \in DexInputs
    /\ dexStr \in DexStrInputs
    /\ dexStrOf = None
    /\ dexParsed = None
    /\ dexOp = [op |-> "none", arg |-> U32Zero, panicked |-> FALSE, res |-> None]
    /\ dexSteps = 0

DexFormat ==
    /\ dexStr' = DexDisplay(dexId)
    /\ dexStrOf' = Some(dexId)
    /\ dexParsed' = None
    /\ UNCHANGED <<dexId, dexOp, dexSteps>>
    /\ UNCHANGED notDex

DexParse ==
    /\ dexParsed = None
    /\ dexParsed' = Some(DexFromStr(dexStr))
    /\ UNCHANGED <<dexId, dexStr, dexStrOf, dexOp, dexSteps>>
    /\ UNCHANGED notDex

\* a successfully parsed id becomes the id at hand
DexAdopt ==
    /\ dexParsed # None
    /\ dexParsed[1].ok
    /\ dexId' = dexParsed[1].val
    /\ UNCHANGED <<dexStr, dexStrOf, dexParsed, dexOp, dexSteps>>
    /\ UNCHANGED notDex

DexCallNext ==
    /\ dexSteps < MaxDexSteps
    /\ \E out \in DexNextOutcomes(dexId) :
        /\ dexOp' = [op |-> "next", arg |-> dexId, panicked |-> out.panicked,
                     res |-> IF out.panicked THEN None ELSE Some(out.val)]
        /\ dexId' = IF out.panicked THEN dexId ELSE out.val
    /\ dexSteps' = dexSteps + 1
    /\ UNCHANGED <<dexStr, dexStrOf, dexParsed>>
    /\ UNCHANGED notDex

DexCallPrev ==
    /\ dexSteps < MaxDexSteps
    /\ dexOp' = [op |-> "prev", arg |-> dexId, panicked |-> FALSE, res |-> DexPrev(dexId)]
    /\ dexId' = IF DexPrev(dexId) = None THEN dexId ELSE DexPrev(dexId)[1]
    /\ dexSteps' = dexSteps + 1
    /\ UNCHANGED <<dexStr, dexStrOf, dexParsed>>
    /\ UNCHANGED notDex

DexNext == DexFormat \/ DexParse \/ DexAdopt \/ DexCallNext \/ DexCallPrev

DexIdle ==
    /\ dexId = U32Zero
    /\ dexStr = <<>>
    /\ dexStrOf = None
    /\ dexParsed = None
    /\ dexOp = [op |-> "none", arg |-> U32Zero, panicked |-> FALSE, res |-> None]
    /\ dexSteps = 0

\* C6: for every valid (strictly positive) DexId n, including ids wider than
\* four digits, from_str applied to the Display output of n succeeds and
\* yields n again.
C6_ParseFormatRoundTrip ==
    (dexStrOf # None /\ dexStrOf[1] # U32Zero /\ dexParsed # None)
        => dexParsed[1] = [ok |-> TRUE, val |-> dexStrOf[1], err |-> ""]

\* a formatted id wider than four digits has been parsed back
C6_Witness ==
    /\ dexStrOf # None
    /\ dexParsed # None
    /\ dexStrOf[1] = U32Of(1234567)
    /\ Len(dexStr) = 8
    /\ dexParsed[1].ok

\* C7: for every valid DexId n, next() yields a valid id (no panic, not zero,
\* not wrapped) whose prev() is n; and prev() is None exactly for the ids
\* with no valid id below them (those not above 1).
C7_PrevNextClaim ==
    /\ (dexOp.op = "next" /\ dexOp.arg # U32Zero) =>
            /\ ~dexOp.panicked
            /\ dexOp.res # None
            /\ dexOp.res[1] # U32Zero
            /\ DexPrev(dexOp.res[1]) = Some(dexOp.arg)
    /\ dexOp.op = "prev" => (dexOp.res = None <=> ~U32Gt1(dexOp.arg))

(***************************************************************************)
(* Strings are sequences of one-character strings.                         *)
(***************************************************************************)
\* str::split(sep): the pieces between separators; always at least one piece
RECURSIVE SplitAcc(_, _, _)
SplitAcc(s, sep, cur) ==
    IF s = <<>> THEN <<cur>>
    ELSE IF Head(s) = sep THEN <<cur>> \o SplitAcc(Tail(s), sep, <<>>)
    ELSE SplitAcc(Tail(s), sep, Append(cur, Head(s)))

Split(s, sep) == SplitAcc(s, sep, <<>>)

RECURSIVE TrimStart(_)
TrimStart(s) == IF s # <<>> /\ Head(s) = " " THEN TrimStart(Tail(s)) ELSE s

RECURSIVE TrimEnd(_)
TrimEnd(s) ==
    IF s # <<>> /\ s[Len(s)] = " " THEN TrimEnd(SubSeq(s, 1, Len(s) - 1)) ELSE s

\* str::trim
Trim(s) == TrimEnd(TrimStart(s))

\* str::split_once(sep): Some(<<before, after>>) around the first sep, or None
SplitOnce(s, sep) ==
    IF \E i \in 1..Len(s) : s[i] = sep
    THEN LET i == CHOOSE i \in 1..Len(s) : s[i] = sep /\ \A j \in 1..(i - 1) : s[j] # sep
         IN  Some(<<SubSeq(s, 1, i - 1), SubSeq(s, i + 1, Len(s))>>)
    ELSE None

\* str::rsplit_once(sep): the same around the last sep
RSplitOnce(s, sep) ==
    IF \E i \in 1..Len(s) : s[i] = sep
    THEN LET i == CHOOSE i \in 1..Len(s) : s[i] = sep /\ \A j \in (i + 1)..Len(s) : s[j] # sep
         IN  Some(<<SubSeq(s, 1, i - 1), SubSeq(s, i + 1, Len(s))>>)
    ELSE None

\* BTreeMap::insert on a map kept as a function from keys to values
MapInsert(m, k, v) == [x \in DOMAIN m \cup {k} |-> IF x = k THEN v ELSE m[x]]
EmptyMap == [x \in {} |-> <<>>]

(***************************************************************************)
(* parse_simple_style_attr (mon.rs)                                        *)
(***************************************************************************)
\* a loop body that keeps the first value of a key
StyleInsertEntryFirstWins(values, entry) ==
    LET kv == SplitOnce(Trim(entry), ":")
    IN  IF kv = None \/ Trim(kv[1][1]) \in DOMAIN values THEN values
        ELSE MapInsert(values, Trim(kv[1][1]), Trim(kv[1][2]))

\* one iteration of the loop over style.split(';')
StyleInsertEntry(values, entry) ==
    LET kv == SplitOnce(Trim(entry), ":")
    IN  IF kv = None THEN values
        ELSE MapInsert(values, Trim(kv[1][1]), Trim(kv[1][2]))

RECURSIVE StyleFold(_, _)
StyleFold(values, entries) ==
    IF entries = <<>> THEN values
    ELSE StyleFold(StyleInsertEntry(values, Head(entries)), Tail(entries))

parse_simple_style_attr(style) == StyleFold(EmptyMap, Split(style, ";"))

StyleChars == {"a", "b", ":", ";", " "}
MaxStyleLen == 6

Strings(alphabet, n) == UNION {[1..k -> alphabet] : k \in 0..n}

StyleInit ==
    /\ styleIn \in Strings(StyleChars, MaxStyleLen)
    /\ styleOut = None

StyleIdle ==
    /\ styleIn = <<>>
    /\ styleOut = None

StyleParse ==
    /\ styleOut = None
    /\ styleOut' = Some(parse_simple_style_attr(styleIn))
    /\ UNCHANGED styleIn
    /\ UNCHANGED notStyle

StyleNext == StyleParse

\* The mapping the description of parseStyleString defines, stated over the
\* positions of the input: the entries are the stretches between ';'s.
StyleCuts(s) == {0, Len(s) + 1} \cup {i \in 1..Len(s) : s[i] = ";"}
StyleEntries(s) ==
    {e \in StyleCuts(s) \X StyleCuts(s) :
        e[1] < e[2] /\ \A c \in StyleCuts(s) : ~(e[1] < c /\ c < e[2])}
StyleColons(s, e) == {i \in (e[1] + 1)..(e[2] - 1) : s[i] = ":"}
StyleKept(s) == {e \in StyleEntries(s) : StyleColons(s, e) # {}}
StyleFirstColon(s, e) == CHOOSE i \in StyleColons(s, e) : \A j \in StyleColons(s, e) : i <= j
\* s[lo..hi] without its leading and trailing blanks
StyleTrimmed(s, lo, hi) ==
    LET ink == {i \in lo..hi : s[i] # " "}
    IN  IF ink = {} THEN <<>>
        ELSE SubSeq(s, CHOOSE i \in ink : \A j \in ink : i <= j,
                       CHOOSE i \in ink : \A j \in ink : j <= i)
StyleKeyOf(s, e) == StyleTrimmed(s, e[1] + 1, StyleFirstColon(s, e) - 1)
StyleValOf(s, e) == StyleTrimmed(s, StyleFirstColon(s, e) + 1, e[2] - 1)
StyleLastWith(s, k) ==
    CHOOSE e \in StyleKept(s) :
        /\ StyleKeyOf(s, e) = k
        /\ \A f \in StyleKept(s) : StyleKeyOf(s, f) = k => f[1] <= e[1]

\* C8: parse_simple_style_attr maps every string to the mapping obtained by
\* splitting on ';', dropping the entries without ':', splitting each other
\* entry at its first ':' and trimming key and value, the last entry of a
\* key giving its value.
C8_StyleMapping ==
    styleOut # None =>
        /\ DOMAIN styleOut[1] = {StyleKeyOf(styleIn, e) : e \in StyleKept(styleIn)}
        /\ \A k \in DOMAIN styleOut[1] :
              styleOut[1][k] = StyleValOf(styleIn, StyleLastWith(styleIn, k))

\* a duplicate key with two different values has been parsed
C8_Witness ==
    /\ styleOut # None
    /\ styleIn = <<"a", ":", "b", ";", "a", ":">>
    /\ styleOut[1] = [k \in {<<"a">>} |-> <<>>]

(***************************************************************************)
(* URLs.  A URL is a record of its components; its path is a string whose  *)
(* characters are "/" and whole names, always starting with "/".           *)
(***************************************************************************)
ARCHIVE_DOMAIN == "archives.bulbagarden.net"
WIKI_DOMAIN == "bulbapedia.bulbagarden.net"

Url(host, path, query, fragment) ==
    [scheme |-> "https", host |-> host, path |-> path, query |-> query, fragment |-> fragment]

\* Url::domain
UrlDomain(u) == Some(u.host)

\* str::contains
Contains(s, pat) ==
    \E i \in 1..(Len(s) - Len(pat) + 1) : SubSeq(s, i, i + Len(pat) - 1) = pat

\* Url::path_segments: the path without its leading "/", split on "/"
PathSegments(u) == Split(Tail(u.path), "/")

\* Url::set_path
UrlSetPath(u, path) == [u EXCEPT !.path = path]

(***************************************************************************)
(* get_image_thumbnail_origin (mon.rs)                                     *)
(***************************************************************************)
\* a reconstruction that takes the thumbnail's own file name (the segment
\* after <file>) for the file
ThumbOriginTakesResizedName(src) ==
    IF UrlDomain(src) # Some(ARCHIVE_DOMAIN) \/ ~Contains(src.path, <<"/", "thumb", "/">>)
    THEN None
    ELSE LET segs == PathSegments(src)
         IN  IF Len(segs) < 1 \/ segs[1] # <<"media">> THEN None
             ELSE IF Len(segs) < 2 \/ segs[2] # <<"upload">> THEN None
             ELSE IF Len(segs) < 3 \/ segs[3] # <<"thumb">> THEN None
             ELSE IF Len(segs) < 7 THEN None
             ELSE Some(UrlSetPath(src,
                    <<"/", "media", "/", "upload", "/">> \o segs[4]
                        \o <<"/">> \o segs[5] \o <<"/">> \o segs[7]))

get_image_thumbnail_origin(src) ==
    IF UrlDomain(src) # Some(ARCHIVE_DOMAIN) \/ ~Contains(src.path, <<"/", "thumb", "/">>)
    THEN None
    ELSE LET segs == PathSegments(src)
         IN  IF Len(segs) < 1 \/ segs[1] # <<"media">> THEN None
             ELSE IF Len(segs) < 2 \/ segs[2] # <<"upload">> THEN None
             ELSE IF Len(segs) < 3 \/ segs[3] # <<"thumb">> THEN None
             ELSE IF Len(segs) < 6 THEN None
             ELSE Some(UrlSetPath(src,
                    <<"/", "media", "/", "upload", "/">> \o segs[4]
                        \o <<"/">> \o segs[5] \o <<"/">> \o segs[6]))

\* the path string of a list of segment names
RECURSIVE PathStr(_)
PathStr(segs) ==
    IF segs = <<>> THEN <<>> ELSE <<"/">> \o Head(segs) \o PathStr(Tail(segs))

ThumbSegNames == {<<"media">>, <<"upload">>, <<"thumb">>, <<"a">>, <<>>}
MaxSegs == 6

\* the URLs of up to n path segments
ThumbInputs(n) ==
    {Url(hq[1], PathStr(segs), hq[2], hq[2]) :
        hq \in {<<ARCHIVE_DOMAIN, None>>, <<ARCHIVE_DOMAIN, Some(<<"v">>)>>,
                <<WIKI_DOMAIN, None>>},
        segs \in UNION {[1..k -> ThumbSegNames] : k \in 1..n}}

ThumbInit ==
    /\ thumbIn \in ThumbInputs(MaxSegs)
    /\ thumbOut = None

ThumbIdle ==
    /\ thumbIn = Url(WIKI_DOMAIN, <<"/">>, None, None)
    /\ thumbOut = None

ThumbCall ==
    /\ thumbOut = None
    /\ thumbOut' = Some(get_image_thumbnail_origin(thumbIn))
    /\ UNCHANGED thumbIn
    /\ UNCHANGED notThumb

ThumbNext == ThumbCall

\* The path segments of a URL, stated over the positions of its path: the
\* i-th segment is the stretch between the i-th "/" and the next one.
SlashAt(path) == {i \in 1..Len(path) : path[i] = "/"}
NthSlash(path, n) ==
    CHOOSE i \in SlashAt(path) : Cardinality({j \in SlashAt(path) : j < i}) = n - 1
SegCount(path) == Cardinality(SlashAt(path))
Seg(path, n) ==
    SubSeq(path, NthSlash(path, n) + 1,
           IF n < SegCount(path) THEN NthSlash(path, n + 1) - 1 ELSE Len(path))
ThumbShape(u) ==
    /\ u.host = ARCHIVE_DOMAIN
    /\ \E n \in 1..(SegCount(u.path) - 1) : Seg(u.path, n) = <<"thumb">>
    /\ SegCount(u.path) >= 6
    /\ Seg(u.path, 1) = <<"media">>
    /\ Seg(u.path, 2) = <<"upload">>
    /\ Seg(u.path, 3) = <<"thumb">>

\* C10: get_image_thumbnail_origin returns None unless the URL is on the
\* media-archive domain, its path has a /thumb/ segment and its segments
\* are media, upload, thumb and at least three more; then it returns the
\* URL with the path /media/upload/<a>/<b>/<file> (the 4th to 6th segments)
\* and every other component as it was.
C10_ThumbOrigin ==
    thumbOut # None =>
        IF ThumbShape(thumbIn)
        THEN /\ thumbOut[1] # None
             /\ thumbOut[1][1].path =
                    <<"/", "media", "/", "upload", "/">> \o Seg(thumbIn.path, 4)
                        \o <<"/">> \o Seg(thumbIn.path, 5) \o <<"/">> \o Seg(thumbIn.path, 6)
             /\ \A f \in {"scheme", "host", "query", "fragment"} :
                    thumbOut[1][1][f] = thumbIn[f]
        ELSE thumbOut[1] = None

\* a thumbnail URL with a query and a fragment has been reconstructed
C10_Witness ==
    /\ thumbOut # None
    /\ thumbIn = Url(ARCHIVE_DOMAIN,
            <<"/", "media", "/", "upload", "/", "thumb", "/", "a", "/", "a", "/", "a">>,
            Some(<<"v">>), Some(<<"v">>))
    /\ thumbOut[1] = Some(Url(ARCHIVE_DOMAIN,
            <<"/", "media", "/", "upload", "/", "a", "/", "a", "/", "a">>,
            Some(<<"v">>), Some(<<"v">>)))

(***************************************************************************)
(* Url::join, for the references that occur in src and srcset attributes   *)
(***************************************************************************)
UrlHosts == {ARCHIVE_DOMAIN, WIKI_DOMAIN}

\* the URL parser writes a blank inside a path as %20
RECURSIVE EncodeBlanks(_)
EncodeBlanks(r) ==
    IF r = <<>> THEN <<>>
    ELSE <<IF Head(r) = " " THEN "%20" ELSE Head(r)>> \o EncodeBlanks(Tail(r))

\* what follows "//": a host, then a path; None when the host does not parse
ParseAuthority(rest) ==
    IF rest = <<>> \/ Head(rest) \notin UrlHosts THEN None
    ELSE Some(Url(Head(rest),
                  IF Len(rest) = 1 THEN <<"/">> ELSE EncodeBlanks(Tail(rest)), None, None))

\* the path up to and including its last "/"
RECURSIVE DirOf(_)
DirOf(path) ==
    IF path = <<>> \/ path[Len(path)] = "/" THEN path
    ELSE DirOf(SubSeq(path, 1, Len(path) - 1))

\* Url::join: leading and trailing blanks of the reference are dropped
UrlJoin(base, ref) ==
    LET r == Trim(ref)
    IN  IF r = <<>> THEN Some([base EXCEPT !.fragment = None])
        ELSE IF Len(r) >= 3 /\ SubSeq(r, 1, 3) = <<"https:", "/", "/">>
             THEN ParseAuthority(SubSeq(r, 4, Len(r)))
        ELSE IF Len(r) >= 2 /\ SubSeq(r, 1, 2) = <<"/", "/">>
             THEN ParseAuthority(SubSeq(r, 3, Len(r)))
        ELSE IF Head(r) = "/" THEN Some(Url(base.host, EncodeBlanks(r), None, None))
        ELSE Some(Url(base.host, DirOf(base.path) \o EncodeBlanks(r), None, None))

(***************************************************************************)
(* get_highest_quality_src (mon.rs)                                        *)
(***************************************************************************)
\* Option::unwrap_or_default on an attribute
UnwrapOrDefault(opt) == IF opt = None THEN <<>> ELSE opt[1]

\* the filter_map closure and the collect into a BTreeMap, entry by entry
SrcSetInsertEntry(src_set, entry) ==
    LET ss == RSplitOnce(entry, " ")
    IN  IF ss = None THEN src_set
        ELSE MapInsert(src_set, Trim(ss[1][2]), ss[1][1])

RECURSIVE SrcSetFold(_, _)
SrcSetFold(src_set, entries) ==
    IF entries = <<>> THEN src_set
    ELSE SrcSetFold(SrcSetInsertEntry(src_set, Head(entries)), Tail(entries))

\* a synthesis that overwrites a "1x" entry of the srcset with the src attribute
SrcSetWith1xAlwaysFromSrc(src_set, img) ==
    MapInsert(src_set, <<"1x">>, UnwrapOrDefault(img.src))

\* if !src_set.contains_key("1x") { src_set.insert("1x", src or "") }
SrcSetWith1x(src_set, img) ==
    IF <<"1x">> \in DOMAIN src_set THEN src_set
    ELSE MapInsert(src_set, <<"1x">>, UnwrapOrDefault(img.src))

\* a choice that prefers "1.5x" to "2x"
PickSrcPrefersOneAndAHalf(src_set) ==
    IF <<"1.5x">> \in DOMAIN src_set THEN Some(src_set[<<"1.5x">>])
    ELSE IF <<"2x">> \in DOMAIN src_set THEN Some(src_set[<<"2x">>])
    ELSE IF <<"1x">> \in DOMAIN src_set THEN Some(src_set[<<"1x">>])
    ELSE None

\* src_set.get("2x").or(src_set.get("1.5x")).or(src_set.get("1x"))
PickSrc(src_set) ==
    IF <<"2x">> \in DOMAIN src_set THEN Some(src_set[<<"2x">>])
    ELSE IF <<"1.5x">> \in DOMAIN src_set THEN Some(src_set[<<"1.5x">>])
    ELSE IF <<"1x">> \in DOMAIN src_set THEN Some(src_set[<<"1x">>])
    ELSE None

get_highest_quality_src(img, base_url, find_thumb_origin) ==
    LET src_set == SrcSetWith1x(
                       SrcSetFold(EmptyMap, Split(UnwrapOrDefault(img.srcset), ",")), img)
        picked == PickSrc(src_set)
    IN  IF picked = None THEN None
        ELSE LET src == UrlJoin(base_url, picked[1])
             IN  IF src = None THEN None
                 ELSE IF find_thumb_origin
                      THEN IF get_image_thumbnail_origin(src[1]) # None
                           THEN get_image_thumbnail_origin(src[1])
                           ELSE src
                      ELSE src

\* srcset entries as they occur between the commas of a srcset attribute
SrcsetEntryPool ==
    { <<"x.png", " ", "1x">>,
      <<" ", "y.png", " ", "2x">>,
      <<" ", "z.png", " ", "1.5x">>,
      <<"w.png", " ", "2x">>,
      <<"x.png">>,
      <<>>,
      <<" ", "y.png", " ", "2x", " ">>,
      <<"/", "/", "[", " ", "1.5x">>,
      <<"/", "/", ARCHIVE_DOMAIN, "/", "media", "/", "upload", "/", "thumb", "/",
        "a", "/", "ab", "/", "f.png", "/", "2x-f.png", " ", "2x">> }
MaxSrcsetEntries == 2

\* the entries joined by commas
RECURSIVE JoinComma(_)
JoinComma(es) ==
    IF es = <<>> THEN <<>>
    ELSE IF Len(es) = 1 THEN es[1]
    ELSE es[1] \o <<",">> \o JoinComma(Tail(es))

SrcsetInputs ==
    {None} \cup {Some(JoinComma(es)) :
                    es \in UNION {[1..k -> SrcsetEntryPool] : k \in 0..MaxSrcsetEntries}}
SrcInputs ==
    {None, Some(<<"s.png">>),
     Some(<<"/", "media", "/", "upload", "/", "thumb", "/", "a", "/", "ab", "/",
            "f.png", "/", "1x-f.png">>)}
BaseInputs ==
    {Url(WIKI_DOMAIN, <<"/", "wiki", "/", "Bulbasaur">>, None, None),
     Url(ARCHIVE_DOMAIN, <<"/", "wiki", "/">>, Some(<<"v">>), Some(<<"v">>))}

SrcInit ==
    /\ imgAttrs \in [srcset : SrcsetInputs, src : SrcInputs]
    /\ imgBase \in BaseInputs
    /\ imgFind \in BOOLEAN
    /\ imgOut = None

SrcIdle ==
    /\ imgAttrs = [srcset |-> None, src |-> None]
    /\ imgBase = Url(WIKI_DOMAIN, <<"/">>, None, None)
    /\ imgFind = FALSE
    /\ imgOut = None

SrcCall ==
    /\ imgOut = None
    /\ imgOut' = Some(get_highest_quality_src(imgAttrs, imgBase, imgFind))
    /\ UNCHANGED <<imgAttrs, imgBase, imgFind>>
    /\ UNCHANGED notSrc

SrcNext == SrcCall

\* The candidates of a srcset, stated over the positions of the attribute:
\* an entry is a stretch between commas; it is a candidate for the text
\* after its last blank, and its URL is the text before that blank.
SrcCuts(s) == {0, Len(s) + 1} \cup {i \in 1..Len(s) : s[i] = ","}
SrcStretches(s) ==
    {e \in SrcCuts(s) \X SrcCuts(s) :
        e[1] < e[2] /\ \A c \in SrcCuts(s) : ~(e[1] < c /\ c < e[2])}
SrcBlanks(s, e) == {i \in (e[1] + 1)..(e[2] - 1) : s[i] = " "}
SrcLastBlank(s, e) == CHOOSE i \in SrcBlanks(s, e) : \A j \in SrcBlanks(s, e) : j <= i
SrcCandidates(s, d) ==
    {e \in SrcStretches(s) :
        /\ SrcBlanks(s, e) # {}
        /\ SubSeq(s, SrcLastBlank(s, e) + 1, e[2] - 1) = d}
SrcPresent(s, d) == SrcCandidates(s, d) # {}
SrcCandidate(s, d) ==
    LET e == CHOOSE e \in SrcCandidates(s, d) : \A f \in SrcCandidates(s, d) : f[1] <= e[1]
    IN  SubSeq(s, e[1] + 1, SrcLastBlank(s, e) - 1)
SrcChosen(img) ==
    LET s == IF img.srcset = None THEN <<>> ELSE img.srcset[1]
    IN  IF SrcPresent(s, <<"2x">>) THEN SrcCandidate(s, <<"2x">>)
        ELSE IF SrcPresent(s, <<"1.5x">>) THEN SrcCandidate(s, <<"1.5x">>)
        ELSE IF SrcPresent(s, <<"1x">>) THEN SrcCandidate(s, <<"1x">>)
        ELSE IF img.src = None THEN <<>> ELSE img.src[1]

\* C9: get_highest_quality_src picks the srcset candidate for "2x" if there
\* is one, otherwise the one for "1.5x", otherwise the one for "1x", the src
\* attribute standing in for "1x" only when the srcset has no "1x"
\* candidate; it returns the chosen candidate resolved against the base URL
\* (its thumbnail origin instead when find_thumb_origin is set and the
\* resolved URL has one; None when the candidate does not resolve).
C9_BestSource ==
    imgOut # None =>
        LET resolved == UrlJoin(imgBase, SrcChosen(imgAttrs))
        IN  IF resolved = None THEN imgOut[1] = None
            ELSE IF imgFind /\ get_image_thumbnail_origin(resolved[1]) # None
                 THEN imgOut[1] = get_image_thumbnail_origin(resolved[1])
                 ELSE imgOut[1] = resolved

\* srcset="x.png 1x, y.png 2x" with a src attribute has been resolved to y.png
C9_Witness ==
    /\ imgOut # None
    /\ imgAttrs = [srcset |-> Some(<<"x.png", " ", "1x", ",", " ", "y.png", " ", "2x">>),
                   src |-> Some(<<"s.png">>)]
    /\ imgBase = Url(WIKI_DOMAIN, <<"/", "wiki", "/", "Bulbasaur">>, None, None)
    /\ imgOut[1] = Some(Url(WIKI_DOMAIN, <<"/", "wiki", "/", "y.png">>, None, None))

(***************************************************************************)
(* The image cache's file names (image.rs)                                 *)
(***************************************************************************)
COMPRESSED_EXT == <<"heif">>

\* str::trim_start_matches(pat): strips every leading repetition of pat
RECURSIVE TrimStartMatches(_, _)
TrimStartMatches(s, pat) ==
    IF Len(s) >= Len(pat) /\ SubSeq(s, 1, Len(pat)) = pat
    THEN TrimStartMatches(SubSeq(s, Len(pat) + 1, Len(s)), pat)
    ELSE s

RECURSIVE Reverse(_)
Reverse(xs) == IF xs = <<>> THEN <<>> ELSE Append(Reverse(Tail(xs)), Head(xs))

\* [&str]::join(sep)
RECURSIVE JoinWith(_, _)
JoinWith(parts, sep) ==
    IF parts = <<>> THEN <<>>
    ELSE IF Len(parts) = 1 THEN parts[1]
    ELSE parts[1] \o <<sep>> \o JoinWith(Tail(parts), sep)

\* an id that keeps the extension apart: <name parts reversed>-<ext>
ImageIdExtKeepsExt(url) ==
    LET path == TrimStartMatches(
                    TrimStartMatches(url.path, <<"/", "media", "/", "upload">>), <<"/">>)
        ne == RSplitOnce(path, ".")
    IN  IF ne = None THEN None
        ELSE Some([id |-> JoinWith(Reverse(Split(ne[1][1], "/")), "-") \o <<"-">> \o ne[1][2],
                   ext |-> ne[1][2]])

\* get_image_id_ext: None stands for the "no file extension" error
get_image_id_ext(url) ==
    LET path == TrimStartMatches(
                    TrimStartMatches(url.path, <<"/", "media", "/", "upload">>), <<"/">>)
        ne == RSplitOnce(path, ".")
    IN  IF ne = None THEN None
        ELSE Some([id |-> JoinWith(Reverse(Split(ne[1][1], "/")), "-"), ext |-> ne[1][2]])

\* format!("{id}.{ext}")
ImageFileName(id, ext) == id \o <<".">> \o ext

\* try_compress: "none" for anything but a PNG and for an animated PNG,
\* "some" for a PNG it re-encodes, "err" when the bytes do not decode.
\* "cut" is a file cut short, "animated" an animated PNG.
try_compress(file_ext, image) ==
    IF file_ext # <<"png">> THEN "none"
    ELSE IF image = "cut" THEN "err"
    ELSE IF image = "animated" THEN "none"
    ELSE "some"

(***************************************************************************)
(* The fetch cache (fetcher.rs), the image cache (image.rs) and the        *)
(* parallel driver (main.rs)                                               *)
(***************************************************************************)
\* the run that is checked: two threads of the pool, an index of two
\* pages, at most MaxImgCalls calls of ImageCache::get over the whole run,
\* and a server that answers a request with one of Bodies or fails.  The fetch cache is
\* also checked on its own, called from three threads of the pool.
Workers == {"w1", "w2"}
Threads == {"t1", "t2", "t3"}
Pages == {"Bulbasaur", "Ivysaur"}
MaxImgCalls == 3
\* the bodies of the responses: read as a PNG the one is a still image and
\* the other an animated one; "cut" is the content of a file that is not
\* written out yet
Bodies == {"still", "animated"}

PageUrl(p) == Url(WIKI_DOMAIN, <<"/", "wiki", "/", p>>, None, None)

ImgUrl(e) ==
    Url(ARCHIVE_DOMAIN, <<"/", "media", "/", "upload", "/", "a", "/", "ab", "/", "f", ".", e>>,
        None, None)

ImgUrls ==
    {ImgUrl(e) : e \in {"png", "jpg"}}
    \cup {Url(ARCHIVE_DOMAIN, <<"/", "media", "/", "upload", "/", "a", "/", "ab", "/", "f">>,
               None, None)}

FetchUrls == {PageUrl(p) : p \in Pages} \cup ImgUrls

\* Url::as_str (no URL of the run has a query or a fragment)
UrlStr(u) == <<"https:", "/", "/", u.host>> \o u.path

\* self.dir.join(url.replace('/', "~"))
CachePath(u) ==
    LET str == UrlStr(u)
    IN  [i \in 1..Len(str) |-> IF str[i] = "/" THEN "~" ELSE str[i]]

CachePaths == {CachePath(u) : u \in FetchUrls}

NoUrl == Url(WIKI_DOMAIN, <<"/">>, None, None)
IdleWorker ==
    [pc |-> "idle", page |-> "", fUrl |-> NoUrl, fCaller |-> "doc",
     fData |-> "", fPrior |-> {}, iUrl |-> NoUrl]

RunInitOf(threads) ==
    /\ pageStatus = [p \in Pages |-> "pending"]
    /\ wk = [w \in threads |-> IdleWorker]
    /\ fetchFiles = [c \in CachePaths |-> None]
    /\ imageFiles = {}
    /\ clientLock = None
    /\ exited = FALSE
    /\ dictWritten = FALSE
    /\ netFetches = [c \in CachePaths |-> 0]
    /\ imgWrites = [u \in ImgUrls |-> 0]
    /\ fetchReturned = [c \in CachePaths |-> {}]
    /\ imgReturned = [u \in ImgUrls |-> {}]
    /\ imgCalls = 0

RunInit == RunInitOf(Workers)

\* no run: no thread, no page, both directories empty
RunIdle ==
    /\ pageStatus = <<>>
    /\ wk = <<>>
    /\ fetchFiles = <<>>
    /\ imageFiles = {}
    /\ clientLock = None
    /\ exited = FALSE
    /\ dictWritten = FALSE
    /\ netFetches = <<>>
    /\ imgWrites = <<>>
    /\ fetchReturned = <<>>
    /\ imgReturned = <<>>
    /\ imgCalls = 0

FetchInit == RunInitOf(Threads)

\* the worker's record at a point of read_mon where no call is pending: the
\* locals of the calls that have returned are gone
AtPc(rec, pc) == [IdleWorker EXCEPT !.pc = pc, !.page = rec.page]

\* the worker's record once its call of Fetcher::get has returned Ok(data):
\* read_mon goes on to the images unless the document is cut short (its
\* info box is not found); ImageCache::get goes on to try_compress; a thread
\* that called the fetch cache itself holds what it was given
AfterFetchOk(w, data) ==
    IF wk[w].fCaller = "doc"
    THEN AtPc(wk[w], IF data = "cut" THEN "err" ELSE "img_next")
    ELSE IF wk[w].fCaller = "img"
    THEN [wk[w] EXCEPT !.pc = "img_compress", !.fData = data, !.fUrl = NoUrl, !.fPrior = {}]
    ELSE [wk[w] EXCEPT !.pc = "returned", !.fData = data]

\* the call of Fetcher::get that starts in the worker's record
StartFetch(rec, url, caller) ==
    [rec EXCEPT !.pc = "f_read", !.fUrl = url, !.fCaller = caller, !.fData = "",
                !.fPrior = fetchReturned[CachePath(url)]]

\* a thread of the pool calls fetcher.get(url, _); it may call again once
\* the call has returned Ok
FetcherGet(w, u) ==
    /\ wk[w].pc \in {"idle", "returned"}
    /\ wk' = [wk EXCEPT ![w] = StartFetch(IdleWorker, u, "direct")]
    /\ UNCHANGED <<pageStatus, fetchFiles, imageFiles, clientLock, exited, dictWritten,
                   netFetches, imgWrites, fetchReturned, imgReturned>>
    /\ UNCHANGED imgCalls
    /\ UNCHANGED notRun

\* main.rs: a worker of the parallel iterator takes a page and calls read_mon,
\* which starts with fetcher.get(url, true)
TakePage(w, p) ==
    /\ wk[w].pc = "idle"
    /\ pageStatus[p] = "pending"
    /\ pageStatus' = [pageStatus EXCEPT ![p] = "extracting"]
    /\ wk' = [wk EXCEPT ![w] = StartFetch([IdleWorker EXCEPT !.page = p], PageUrl(p), "doc")]
    /\ UNCHANGED <<fetchFiles, imageFiles, clientLock, exited, dictWritten,
                   netFetches, imgWrites, fetchReturned, imgReturned>>
    /\ UNCHANGED imgCalls
    /\ UNCHANGED notRun

\* Fetcher::get: fs::read(&cache_path), made without the lock
FsRead(w) ==
    /\ wk[w].pc = "f_read"
    /\ LET c == CachePath(wk[w].fUrl)
       IN  IF fetchFiles[c] # None
           THEN /\ wk' = [wk EXCEPT ![w] = AfterFetchOk(w, fetchFiles[c][1])]
                /\ fetchReturned' = [fetchReturned EXCEPT ![c] = @ \cup {fetchFiles[c][1]}]
           ELSE /\ wk' = [wk EXCEPT ![w].pc = "f_lock"]
                /\ UNCHANGED fetchReturned
    /\ UNCHANGED <<pageStatus, fetchFiles, imageFiles, clientLock, exited, dictWritten,
                   netFetches, imgWrites, imgReturned>>
    /\ UNCHANGED imgCalls
    /\ UNCHANGED notRun

\* Fetcher::get: self.client.lock()
LockClient(w) ==
    /\ wk[w].pc = "f_lock"
    /\ clientLock = None
    /\ clientLock' = Some(w)
    /\ wk' = [wk EXCEPT ![w].pc = "f_send"]
    /\ UNCHANGED <<pageStatus, fetchFiles, imageFiles, exited, dictWritten,
                   netFetches, imgWrites, fetchReturned, imgReturned>>
    /\ UNCHANGED imgCalls
    /\ UNCHANGED notRun

\* a request whose failure leaves the lock with the thread that returns
SendRequestKeepsLock(w) ==
    /\ wk[w].pc = "f_send"
    /\ netFetches' = [netFetches EXCEPT ![CachePath(wk[w].fUrl)] = @ + 1]
    /\ \E r \in {"failure"} \cup Bodies :
        IF r = "failure"
        THEN wk' = [wk EXCEPT ![w] = AtPc(wk[w], "err")]
        ELSE wk' = [wk EXCEPT ![w].pc = "f_write", ![w].fData = r]
    /\ UNCHANGED <<pageStatus, fetchFiles, imageFiles, clientLock, exited, dictWritten,
                   imgWrites, fetchReturned, imgReturned>>
    /\ UNCHANGED imgCalls
    /\ UNCHANGED notRun

\* Fetcher::get: the request and its response.  On a failure (send error,
\* non-success status, body error) the call returns Err and the guard is
\* dropped; any other response is a body.
SendRequest(w) ==
    /\ wk[w].pc = "f_send"
    /\ netFetches' = [netFetches EXCEPT ![CachePath(wk[w].fUrl)] = @ + 1]
    /\ \E r \in {"failure"} \cup Bodies :
        IF r = "failure"
        THEN /\ wk' = [wk EXCEPT ![w] = AtPc(wk[w], "err")]
             /\ clientLock' = None
        ELSE /\ wk' = [wk EXCEPT ![w].pc = "f_write", ![w].fData = r]
             /\ UNCHANGED clientLock
    /\ UNCHANGED <<pageStatus, fetchFiles, imageFiles, exited, dictWritten,
                   imgWrites, fetchReturned, imgReturned>>
    /\ UNCHANGED imgCalls
    /\ UNCHANGED notRun

\* Fetcher::get: fs::write(cache_path, &data) first creates or truncates the
\* file; if it cannot, the call returns Err and the guard is dropped
FsWriteCreate(w) ==
    /\ wk[w].pc = "f_write"
    /\ \E created \in BOOLEAN :
        IF created
        THEN /\ fetchFiles' = [fetchFiles EXCEPT ![CachePath(wk[w].fUrl)] = Some("cut")]
             /\ wk' = [wk EXCEPT ![w].pc = "f_write_all"]
             /\ UNCHANGED clientLock
        ELSE /\ wk' = [wk EXCEPT ![w] = AtPc(wk[w], "err")]
             /\ clientLock' = None
             /\ UNCHANGED fetchFiles
    /\ UNCHANGED <<pageStatus, imageFiles, exited, dictWritten,
                   netFetches, imgWrites, fetchReturned, imgReturned>>
    /\ UNCHANGED imgCalls
    /\ UNCHANGED notRun

\* Fetcher::get: fs::write then writes the bytes; Ok(data) is returned and the
\* guard is dropped.  If the bytes cannot all be written the file stays cut
\* short, Err is returned and the guard is dropped as well.
FsWriteAll(w) ==
    /\ wk[w].pc = "f_write_all"
    /\ \E written \in BOOLEAN :
        LET c == CachePath(wk[w].fUrl)
        IN  IF written
            THEN /\ fetchFiles' = [fetchFiles EXCEPT ![c] = Some(wk[w].fData)]
                 /\ fetchReturned' = [fetchReturned EXCEPT ![c] = @ \cup {wk[w].fData}]
                 /\ wk' = [wk EXCEPT ![w] = AfterFetchOk(w, wk[w].fData)]
            ELSE /\ wk' = [wk EXCEPT ![w] = AtPc(wk[w], "err")]
                 /\ UNCHANGED <<fetchFiles, fetchReturned>>
    /\ clientLock' = None
    /\ UNCHANGED <<pageStatus, imageFiles, exited, dictWritten,
                   netFetches, imgWrites, imgReturned>>
    /\ UNCHANGED imgCalls
    /\ UNCHANGED notRun

\* read_mon / fix_links: the next image of the page is handed to
\* ImageCache::get, which starts with get_image_id_ext(url)?
ImageCacheGet(w, u) ==
    /\ wk[w].pc = "img_next"
    /\ imgCalls < MaxImgCalls
    /\ imgCalls' = imgCalls + 1
    /\ wk' = [wk EXCEPT ![w] = IF get_image_id_ext(u) = None THEN AtPc(wk[w], "err")
                                   ELSE [wk[w] EXCEPT !.pc = "img_exists_c", !.iUrl = u]]
    /\ UNCHANGED <<pageStatus, fetchFiles, imageFiles, clientLock, exited, dictWritten,
                   netFetches, imgWrites, fetchReturned, imgReturned>>
    /\ UNCHANGED notRun

\* ImageCache::get: cache_path_compressed.exists()
ImgExistsCompressed(w) ==
    /\ wk[w].pc = "img_exists_c"
    /\ LET name == ImageFileName(get_image_id_ext(wk[w].iUrl)[1].id, COMPRESSED_EXT)
       IN  IF name \in imageFiles
           THEN /\ wk' = [wk EXCEPT ![w] = AtPc(wk[w], "img_next")]
                /\ imgReturned' = [imgReturned EXCEPT ![wk[w].iUrl] = @ \cup {name}]
           ELSE /\ wk' = [wk EXCEPT ![w].pc = "img_exists_e"]
                /\ UNCHANGED imgReturned
    /\ UNCHANGED <<pageStatus, fetchFiles, imageFiles, clientLock, exited, dictWritten,
                   netFetches, imgWrites, fetchReturned>>
    /\ UNCHANGED imgCalls
    /\ UNCHANGED notRun

\* ImageCache::get: cache_path_ext.exists(), else fetcher.get(url, false)
ImgExistsExt(w) ==
    /\ wk[w].pc = "img_exists_e"
    /\ LET ie == get_image_id_ext(wk[w].iUrl)[1]
           name == ImageFileName(ie.id, ie.ext)
       IN  IF name \in imageFiles
           THEN /\ wk' = [wk EXCEPT ![w] = AtPc(wk[w], "img_next")]
                /\ imgReturned' = [imgReturned EXCEPT ![wk[w].iUrl] = @ \cup {name}]
           ELSE /\ wk' = [wk EXCEPT ![w] = StartFetch(wk[w], wk[w].iUrl, "img")]
                /\ UNCHANGED imgReturned
    /\ UNCHANGED <<pageStatus, fetchFiles, imageFiles, clientLock, exited, dictWritten,
                   netFetches, imgWrites, fetchReturned>>
    /\ UNCHANGED imgCalls
    /\ UNCHANGED notRun

\* ImageCache::get: try_compress, then fs::write of the compressed or the
\* fetched file, and the file's name is returned
ImgCompressWrite(w) ==
    /\ wk[w].pc = "img_compress"
    /\ LET ie == get_image_id_ext(wk[w].iUrl)[1]
           c == try_compress(ie.ext, wk[w].fData)
           name == ImageFileName(ie.id, IF c = "some" THEN COMPRESSED_EXT ELSE ie.ext)
       IN  IF c = "err"
           THEN /\ wk' = [wk EXCEPT ![w] = AtPc(wk[w], "err")]
                /\ UNCHANGED <<imageFiles, imgWrites, imgReturned>>
           ELSE /\ imageFiles' = imageFiles \cup {name}
                /\ imgWrites' = [imgWrites EXCEPT ![wk[w].iUrl] = @ + 1]
                /\ imgReturned' = [imgReturned EXCEPT ![wk[w].iUrl] = @ \cup {name}]
                /\ wk' = [wk EXCEPT ![w] = AtPc(wk[w], "img_next")]
    /\ UNCHANGED <<pageStatus, fetchFiles, clientLock, exited, dictWritten,
                   netFetches, fetchReturned>>
    /\ UNCHANGED imgCalls
    /\ UNCHANGED notRun

\* read_mon returns Ok(mon): the page has no further image
FinishPage(w) ==
    /\ wk[w].pc = "img_next"
    /\ pageStatus' = [pageStatus EXCEPT ![wk[w].page] = "ok"]
    /\ wk' = [wk EXCEPT ![w] = IdleWorker]
    /\ UNCHANGED <<fetchFiles, imageFiles, clientLock, exited, dictWritten,
                   netFetches, imgWrites, fetchReturned, imgReturned>>
    /\ UNCHANGED imgCalls
    /\ UNCHANGED notRun

\* a driver that drops the failed page and lets the batch go on
ReportFailureAndContinue(w) ==
    /\ wk[w].pc = "err"
    /\ pageStatus' = [pageStatus EXCEPT ![wk[w].page] = "failed"]
    /\ wk' = [wk EXCEPT ![w] = IdleWorker]
    /\ UNCHANGED <<fetchFiles, imageFiles, clientLock, exited, dictWritten,
                   netFetches, imgWrites, fetchReturned, imgReturned>>
    /\ UNCHANGED imgCalls
    /\ UNCHANGED notRun

\* main.rs: read_mon returned Err: eprintln!("error reading {id}: {e:#}") and
\* std::process::exit(1), which ends every thread of the process
ReportFailureAndExit(w) ==
    /\ wk[w].pc = "err"
    /\ exited' = TRUE
    /\ pageStatus' = [p \in Pages |->
            IF p = wk[w].page THEN "failed"
            ELSE IF pageStatus[p] = "extracting" THEN "aborted"
            ELSE IF pageStatus[p] = "pending" THEN "dropped"
            ELSE pageStatus[p]]
    /\ wk' = [v \in Workers |-> [IdleWorker EXCEPT !.pc = "terminated"]]
    /\ UNCHANGED <<fetchFiles, imageFiles, clientLock, dictWritten,
                   netFetches, imgWrites, fetchReturned, imgReturned>>
    /\ UNCHANGED imgCalls
    /\ UNCHANGED notRun

\* main.rs: every page collected: generate_dictionary and fs::write
WriteDictionary ==
    /\ ~exited
    /\ ~dictWritten
    /\ \A p \in Pages : pageStatus[p] = "ok"
    /\ dictWritten' = TRUE
    /\ UNCHANGED <<pageStatus, wk, fetchFiles, imageFiles, clientLock, exited,
                   netFetches, imgWrites, fetchReturned, imgReturned>>
    /\ UNCHANGED imgCalls
    /\ UNCHANGED notRun

RunNext ==
    \/ \E w \in Workers, p \in Pages : TakePage(w, p)
    \/ \E w \in Workers : FsRead(w)
    \/ \E w \in Workers : LockClient(w)
    \/ \E w \in Workers : SendRequest(w)
    \/ \E w \in Workers : FsWriteCreate(w)
    \/ \E w \in Workers : FsWriteAll(w)
    \/ \E w \in Workers, u \in ImgUrls : ImageCacheGet(w, u)
    \/ \E w \in Workers : ImgExistsCompressed(w)
    \/ \E w \in Workers : ImgExistsExt(w)
    \/ \E w \in Workers : ImgCompressWrite(w)
    \/ \E w \in Workers : FinishPage(w)
    \/ \E w \in Workers : ReportFailureAndExit(w)
    \/ WriteDictionary

\* the fetch cache called from the threads of the pool for an image that
\* their pages share; a call that returned Err ends its thread, as it ends
\* the run
FetchNext ==
    \/ \E t \in Threads : FetcherGet(t, ImgUrl("png"))
    \/ \E t \in Threads : FsRead(t)
    \/ \E t \in Threads : LockClient(t)
    \/ \E t \in Threads : SendRequest(t)
    \/ \E t \in Threads : FsWriteCreate(t)
    \/ \E t \in Threads : FsWriteAll(t)

\* C1: under any interleaving at most one request is sent to the server per
\* URL and at most one file is written to the image directory per image
\* URL: two workers asking for the same asset never both fetch it.
C1_AtMostOneFetchPerKey ==
    /\ \A c \in CachePaths : netFetches[c] <= 1
    /\ \A u \in ImgUrls : imgWrites[u] <= 1

\* C2: a successful Fetcher::get of a URL returns the very data that every
\* successful get of that URL completed before it was called had returned.
C2_FetchIsStable ==
    \A t \in DOMAIN wk : wk[t].pc = "returned" =>
        \A d \in wk[t].fPrior : d = wk[t].fData

\* C22: whatever a successful Fetcher::get returns for a URL is the whole
\* body of a response to a request for that URL, also while another thread
\* is writing the cache file of that URL.
C22_NoPartialCacheEntry ==
    \A c \in DOMAIN fetchReturned : \A d \in fetchReturned[c] : d \in Bodies

\* the threads between self.client.lock() and the return of Fetcher::get
C23_InNetworkSection ==
    {w \in DOMAIN wk : wk[w].pc \in {"f_send", "f_write", "f_write_all"}}

\* at most one thread is in the network section, it is the one that holds
\* the lock, and nobody holds the lock outside the section while the
\* process runs
C23_OneInSection ==
    /\ Cardinality(C23_InNetworkSection) <= 1
    /\ \A w \in C23_InNetworkSection : clientLock = Some(w)
    /\ (clientLock # None /\ ~exited) => clientLock[1] \in C23_InNetworkSection

\* C23: at every moment at most one thread is in the network section of
\* Fetcher::get, whatever URLs are asked for; the lock is given back on every
\* way out of the section, and a thread that waits for the lock does not
\* wait forever.
C23_LockExclusiveAndReleased ==
    /\ []C23_OneInSection
    /\ \A w \in Workers : (wk[w].pc = "f_lock") ~> (wk[w].pc # "f_lock")

\* a thread waits for the lock while the other writes the file of another URL
C23_Witness ==
    \E v, w \in DOMAIN wk :
        /\ wk[v].pc = "f_lock"
        /\ wk[w].pc = "f_write_all"
        /\ wk[v].fUrl # wk[w].fUrl
        /\ clientLock = Some(w)

\* C3: any two successful ImageCache::get calls with the same URL return the
\* same file name.
C3_SameUrlSameId ==
    \A u \in ImgUrls : Cardinality(imgReturned[u]) <= 1

\* C4 as claimed: a failed page does not cut off the extraction of another page
C4_OnlyThatPageAborted ==
    \A p \in Pages : pageStatus[p] = "failed" =>
        \A q \in Pages \ {p} : pageStatus[q] # "aborted"

\* C4, amended: when the extraction of a page fails the process exits: every
\* thread is ended, every other page is done already, cut off or never
\* started, no second page is reported, and no dictionary is written.
C4_FailureHaltsBatch ==
    \A p \in Pages : pageStatus[p] = "failed" =>
        /\ exited
        /\ ~dictWritten
        /\ \A w \in Workers : wk[w].pc = "terminated"
        /\ \A q \in Pages \ {p} : pageStatus[q] \in {"ok", "aborted", "dropped"}

\* a page has failed while the other page was being extracted
C4_Witness ==
    /\ exited
    /\ \E p, q \in Pages : pageStatus[p] = "failed" /\ pageStatus[q] = "aborted"

(***************************************************************************)
(* read_mon (mon.rs).  A document is told by what each lookup of read_mon  *)
(* finds in it: the number of elements a selector matches, the number of   *)
(* element children that are counted, the text that is parsed; the image   *)
(* box is a sequence of cells.                                             *)
(***************************************************************************)
\* the lookups of read_mon in the order they are made, each with the error
\* it raises
MonLookups == <<
    [at |-> "fetch",            err |-> "failed to fetch"],
    [at |-> "utf8",             err |-> "invalid utf-8 sequence"],
    [at |-> "table_roundy",     err |-> "could not find info box"],
    [at |-> "info_box_tbody",   err |-> "no info box tbody"],
    [at |-> "info_box_rows",    err |-> "no header box"],
    [at |-> "header_td",        err |-> "no header box > td"],
    [at |-> "header_table",     err |-> "no header box > td > table"],
    [at |-> "header_tbody",     err |-> "no header box > td > table > tbody"],
    [at |-> "header_trs",       err |-> "unexpected header box tr count"],
    [at |-> "first_tr_items",   err |-> "unexpected header box tr > td count"],
    [at |-> "name_table",       err |-> "no name box > table"],
    [at |-> "name_tbody",       err |-> "no name box > table > tbody"],
    [at |-> "name_tr",          err |-> "no name box > table > tbody > tr"],
    [at |-> "name_tds",         err |-> "unexpected name box td count"],
    [at |-> "big",              err |-> "missing name box <big>"],
    [at |-> "a_title",          err |-> "missing name box categories"],
    [at |-> "category_items",   err |-> "unexpected name box category item count"],
    [at |-> "lang_ja",          err |-> "could not find jp name"],
    [at |-> "jp_i",             err |-> "could not find jp translit"],
    [at |-> "dex_a",            err |-> "could not find dex id"],
    [at |-> "dex_text",         err |-> "ParseIntError"],
    [at |-> "img_td",           err |-> "no img box > td"],
    [at |-> "img_table",        err |-> "no img box > td > table"],
    [at |-> "img_tbody",        err |-> "no img box > td > table > tbody"] >>

MonLookupNames == {MonLookups[i].at : i \in 1..Len(MonLookups)}
    \cup {"info_links", "mw_parser_output", "body_links"}

\* the texts found in the dex id link
MonDexTexts == << <<"#", "0", "0", "0", "1">>, <<"#">>, <<"0", "x">> >>

\* a page on which every lookup finds what read_mon expects
MonGoodDoc ==
    [f \in MonLookupNames |->
        IF f \in {"header_trs", "first_tr_items", "name_tds", "info_box_rows"} THEN 2 ELSE 1]

\* what a lookup finds on a page that deviates there
MonDeviations(f) ==
    IF f \in {"header_trs", "first_tr_items", "name_tds"} THEN {1, 3}
    ELSE IF f = "category_items" THEN {0, 2}
    ELSE IF f = "dex_text" THEN {2, 3}
    ELSE {0}

MaxDefects == 2

\* the pages that deviate from MonGoodDoc in at most n lookups
RECURSIVE MonDocs(_)
MonDocs(n) ==
    IF n = 0 THEN {MonGoodDoc}
    ELSE MonDocs(n - 1) \cup
         {[d EXCEPT ![f] = b] : <<d, f, b>> \in
            {t \in MonDocs(n - 1) \X MonLookupNames \X (0..3) : t[3] \in MonDeviations(t[2])}}

\* the image boxes: a cell holds an image, an image without src, an image
\* that ImageCache::get fails on, an image whose width does not parse, the
\* "Archives" link, something else, or is hidden by display:none
MonGalleries ==
    { <<>>, <<"img">>, <<"img", "img">>, <<"img", "archives">>, <<"hidden", "img">>,
      <<"hidden", "other">>, <<"img", "img_nosrc">>, <<"img_uncached">>,
      <<"img", "img_nowidth">>, <<"other">>, <<"archives", "other", "img">> }

\* the fields of MonEntry
MonEntryFields ==
    {"url", "info_box_style", "dex_id", "name", "categories_html", "name_jp_text",
     "name_jp_html", "name_jp_translit_html", "images", "top_info_boxes_html",
     "extra_info_boxes_html", "summary_html", "body_html"}

MonErr(msg) == [entry |-> None, err |-> Some(msg)]
MonOk(entry) == [entry |-> Some(entry), err |-> None]

\* a check of the header box that expects a single row in its table
MonFoundOneHeaderRow(doc, f) ==
    IF f = "header_trs" THEN doc[f] = 1
    ELSE IF f \in {"first_tr_items", "name_tds"} THEN doc[f] = 2
    ELSE IF f = "category_items" THEN doc[f] = 1
    ELSE IF f = "dex_text" THEN DexFromStr(MonDexTexts[doc[f]]).ok
    ELSE doc[f] >= 1

\* does the lookup find what read_mon goes on with
MonFound(doc, f) ==
    IF f \in {"header_trs", "first_tr_items", "name_tds"} THEN doc[f] = 2
    ELSE IF f = "category_items" THEN doc[f] = 1
    ELSE IF f = "dex_text" THEN DexFromStr(MonDexTexts[doc[f]]).ok
    ELSE doc[f] >= 1

\* a lookup that takes the first table of the page for the info box
FirstTableAsInfoBox(doc) == TRUE

\* doc.select_first("table.roundy")
SelectInfoBox(doc) == MonFound(doc, "table_roundy")

\* the first lookup from the i-th on that fails, 0 if none does
RECURSIVE MonFirstFailure(_, _)
MonFirstFailure(doc, i) ==
    IF i > Len(MonLookups) THEN 0
    ELSE IF MonLookups[i].at = "table_roundy" /\ ~SelectInfoBox(doc) THEN i
    ELSE IF MonLookups[i].at # "table_roundy" /\ ~MonFound(doc, MonLookups[i].at) THEN i
    ELSE MonFirstFailure(doc, i + 1)

\* the loop over the cells of the image box: the images collected, or the
\* error of the first cell that raises one
RECURSIVE MonImages(_, _, _)
MonImages(cells, i, images) ==
    IF i > Len(cells) THEN [images |-> images, err |-> None]
    ELSE IF cells[i] = "hidden" THEN MonImages(cells, i + 1, images)
    ELSE IF cells[i] = "img_nosrc" THEN [images |-> <<>>, err |-> Some("no img src")]
    ELSE IF cells[i] = "img_uncached" THEN [images |-> <<>>, err |-> Some("error loading image")]
    ELSE IF cells[i] = "img_nowidth"
    THEN [images |-> <<>>, err |-> Some("error parsing img width")]
    ELSE IF cells[i] = "img" THEN MonImages(cells, i + 1, Append(images, i))
    ELSE IF cells[i] = "archives" THEN MonImages(cells, i + 1, images)
    ELSE [images |-> <<>>, err |-> Some("unexpected img box child")]

read_mon(url, doc, cells) ==
    LET failed == MonFirstFailure(doc, 1)
        imgs == MonImages(cells, 1, <<>>)
    IN  IF failed # 0
        THEN MonErr(IF MonLookups[failed].at = "dex_text"
                    THEN DexFromStr(MonDexTexts[doc["dex_text"]]).err
                    ELSE MonLookups[failed].err)
        ELSE IF imgs.err # None THEN MonErr(imgs.err[1])
        ELSE IF ~MonFound(doc, "info_links") THEN MonErr("error fixing info box links")
        ELSE IF ~MonFound(doc, "mw_parser_output") THEN MonErr("no mw-parser-output")
        ELSE IF ~MonFound(doc, "body_links") THEN MonErr("error fixing summary links")
        ELSE MonOk([url |-> url,
                    info_box_style |-> "info_box_style",
                    dex_id |-> DexFromStr(MonDexTexts[doc["dex_text"]]).val,
                    name |-> "name",
                    categories_html |-> "categories",
                    name_jp_text |-> "name_jp.text",
                    name_jp_html |-> "name_jp.html",
                    name_jp_translit_html |-> "name_jp_translit",
                    images |-> imgs.images,
                    top_info_boxes_html |-> IF doc["info_box_rows"] >= 2 THEN 1 ELSE 0,
                    extra_info_boxes_html |-> 0,
                    summary_html |-> "summary",
                    body_html |-> "body"])

MonInit ==
    /\ monDoc \in MonDocs(MaxDefects)
    /\ monCells \in MonGalleries
    /\ monOut = None

MonIdle ==
    /\ monDoc = MonGoodDoc
    /\ monCells = <<>>
    /\ monOut = None

MonCall ==
    /\ monOut = None
    /\ monOut' = Some(read_mon("Bulbasaur", monDoc, monCells))
    /\ UNCHANGED <<monDoc, monCells>>
    /\ UNCHANGED notMon

MonNext == MonCall

\* C5: read_mon returns either a record with every field of MonEntry or an
\* error, never both and never a record short of a field; on a page that was
\* fetched and decoded and has no table.roundy the error is "could not find
\* info box" and there is no record.
C5_NoInfoBoxNoRecord ==
    monOut # None =>
        /\ (monOut[1].entry = None) # (monOut[1].err = None)
        /\ monOut[1].entry # None => DOMAIN monOut[1].entry[1] = MonEntryFields
        /\ (monDoc["fetch"] = 1 /\ monDoc["utf8"] = 1 /\ monDoc["table_roundy"] = 0) =>
                /\ monOut[1].err = Some("could not find info box")
                /\ monOut[1].entry = None

\* read_mon has returned for a page without table.roundy whose table has a
\* body all the same
C5_Witness ==
    /\ monOut # None
    /\ monDoc["fetch"] = 1 /\ monDoc["utf8"] = 1
    /\ monDoc["table_roundy"] = 0 /\ monDoc["info_box_tbody"] = 1
    /\ monOut[1].err = Some("could not find info box")

\* the lookups that come before the rows of the header box are counted
C21_ReachesHeaderRows ==
    \A f \in {"fetch", "utf8", "table_roundy", "info_box_tbody", "info_box_rows",
               "header_td", "header_table", "header_tbody"} : monDoc[f] >= 1

\* C21 as stated: read_mon fails unless the table of the header box has
\* exactly one row and that row has exactly two cells.
C21_OneRowTwoCells ==
    (monOut # None /\ monOut[1].entry # None) =>
        monDoc["header_trs"] = 1 /\ monDoc["first_tr_items"] = 2

\* C21, amended: read_mon fails unless the table of the header box has
\* exactly two rows and the first of them has exactly two cells; a page that
\* gets as far as that table fails with "unexpected header box tr count" for
\* any other number of rows, and with "unexpected header box tr > td count"
\* for two rows and any other number of cells in the first.
C21_TwoRowsTwoCells ==
    monOut # None =>
        /\ monOut[1].entry # None =>
               monDoc["header_trs"] = 2 /\ monDoc["first_tr_items"] = 2
        /\ (C21_ReachesHeaderRows /\ monDoc["header_trs"] # 2) =>
               /\ monOut[1].entry = None
               /\ monOut[1].err = Some("unexpected header box tr count")
        /\ (C21_ReachesHeaderRows /\ monDoc["header_trs"] = 2
                /\ monDoc["first_tr_items"] # 2) =>
               /\ monOut[1].entry = None
               /\ monOut[1].err = Some("unexpected header box tr > td count")

\* read_mon has failed on a header box whose table has one row of two cells
C21_Witness ==
    /\ monOut # None
    /\ C21_ReachesHeaderRows
    /\ monDoc["header_trs"] = 1 /\ monDoc["first_tr_items"] = 2
    /\ monOut[1].entry = None
    /\ monOut[1].err = Some("unexpected header box tr count")

(***************************************************************************)
(* fix_links (mon.rs): the links and the images of a subtree               *)
(***************************************************************************)
\* the suffix of the href of a Pokemon article
MON_SUFFIX == "_(Pok%C3%A9mon)"

\* Index.pokemon_pages: read_index joins each href to the index URL
MonPagePath(name) == <<"/", "wiki", "/">> \o name \o <<MON_SUFFIX>>
FixIndex ==
    [id \in {U32Of(1), U32Of(2)} |->
        UrlStr(Url(WIKI_DOMAIN,
                   MonPagePath(IF id = U32Of(1) THEN <<"Bulbasaur">> ELSE <<"Mr", ".", "_Mime">>),
                   None, None))]

\* str::starts_with and str::ends_with
StartsWith(s, pat) == Len(s) >= Len(pat) /\ SubSeq(s, 1, Len(pat)) = pat
EndsWith(s, pat) == Len(s) >= Len(pat) /\ SubSeq(s, Len(s) - Len(pat) + 1, Len(s)) = pat

\* the order of DexId
U32Less(a, b) == a.hi < b.hi \/ (a.hi = b.hi /\ a.lo < b.lo)

\* index.pokemon_pages.iter().find(|(_, page)| **page == *url_str): the
\* first id in key order
IndexFind(index, url_str) ==
    LET hits == {id \in DOMAIN index : index[id] = url_str}
    IN  IF hits = {} THEN None
        ELSE Some(CHOOSE id \in hits : \A other \in hits \ {id} : U32Less(id, other))

\* format!("x-dictionary:r:pokemon-{}", id.0)
CrossRef(id) == <<"x-dictionary:r:pokemon-">> \o U32Digits(id)

\* a rewrite that turns every link into the index into a cross-reference,
\* whatever its href looked like
FixLinkByTargetOnly(index, base_url, attrs) ==
    IF attrs.href = None THEN [err |-> None, attrs |-> attrs]
    ELSE LET url == UrlJoin(base_url, attrs.href[1])
         IN  IF url = None
             THEN [err |-> Some("error fixing <a href>"), attrs |-> attrs]
             ELSE LET found == IndexFind(index, UrlStr(url[1]))
                  IN  IF found # None
                      THEN [err |-> None,
                            attrs |-> [attrs EXCEPT !.href = Some(CrossRef(found[1])),
                                                    !.title = None]]
                      ELSE [err |-> None,
                            attrs |-> [attrs EXCEPT !.href = Some(UrlStr(url[1]))]]

\* the body of the loop over node.select("a")
FixLink(index, base_url, attrs) ==
    IF attrs.href = None THEN [err |-> None, attrs |-> attrs]
    ELSE LET url == UrlJoin(base_url, attrs.href[1])
         IN  IF url = None
             THEN [err |-> Some("error fixing <a href>"), attrs |-> attrs]
             ELSE LET url_str == UrlStr(url[1])
                      found == IF StartsWith(attrs.href[1], <<"/", "wiki", "/">>)
                                    /\ EndsWith(attrs.href[1], <<MON_SUFFIX>>)
                               THEN IndexFind(index, url_str)
                               ELSE None
                  IN  IF found # None
                      THEN [err |-> None,
                            attrs |-> [attrs EXCEPT !.href = Some(CrossRef(found[1])),
                                                    !.title = None]]
                      ELSE [err |-> None, attrs |-> [attrs EXCEPT !.href = Some(url_str)]]

\* urlencoding::encode: letters, digits, "-", "_", "." and "~" stay, every
\* other byte becomes %XX
UrlEncode(s) ==
    [i \in 1..Len(s) |->
        IF s[i] = "%20" THEN "%2520"
        ELSE IF s[i] = MON_SUFFIX THEN "_%28Pok%25C3%25A9mon%29"
        ELSE s[i]]

\* ImageCache::get as fix_links sees it: an error for a URL without a file
\* extension or when the fetch or the compression fails, else the name of
\* the compressed file or of the file as fetched
ImageCacheResult(cache, url) ==
    LET ie == get_image_id_ext(url)
    IN  IF ie = None \/ cache = "fails" THEN None
        ELSE Some(ImageFileName(ie[1].id, IF cache = "compresses" THEN COMPRESSED_EXT
                                          ELSE ie[1].ext))

\* a rewrite that writes the cache identifier as it is
FixImageAttrsUnencoded(attrs, image_id) ==
    LET set == [attrs EXCEPT !.srcset = None, !.src = Some(<<"images/">> \o image_id)]
    IN  IF attrs.width # None THEN [set EXCEPT !.height = None] ELSE set

\* attrs.remove("srcset"), attrs.insert("src", ..), and the height is
\* dropped if there is a width
FixImageAttrs(attrs, image_id) ==
    LET set == [attrs EXCEPT !.srcset = None,
                             !.src = Some(<<"images/">> \o UrlEncode(image_id))]
    IN  IF attrs.width # None THEN [set EXCEPT !.height = None] ELSE set

\* the body of the loop over node.select("img"); asked is the URL handed to
\* ImageCache::get, if the loop got that far
FixImage(cache, base_url, hq, attrs) ==
    LET src == get_highest_quality_src(attrs, base_url, hq)
    IN  IF src = None
        THEN [err |-> Some("<img> without src"), attrs |-> attrs, asked |-> None]
        ELSE LET image_id == ImageCacheResult(cache, src[1])
             IN  IF image_id = None
                 THEN [err |-> Some("error fixing <img src>"), attrs |-> attrs, asked |-> src]
                 ELSE [err |-> None, attrs |-> FixImageAttrs(attrs, image_id[1]),
                       asked |-> src]

\* the two loops of fix_links: the elements are rewritten in place, one after
\* the other, and the first error ends the call
RECURSIVE FixLinksLoop(_, _, _, _)
FixLinksLoop(index, base_url, links, i) ==
    IF i > Len(links) THEN [err |-> None, links |-> links]
    ELSE LET r == FixLink(index, base_url, links[i])
         IN  IF r.err # None THEN [err |-> r.err, links |-> links]
             ELSE FixLinksLoop(index, base_url, [links EXCEPT ![i] = r.attrs], i + 1)

RECURSIVE FixImagesLoop(_, _, _, _, _, _)
FixImagesLoop(cache, base_url, hq, imgs, i, asked) ==
    IF i > Len(imgs) THEN [err |-> None, imgs |-> imgs, asked |-> asked]
    ELSE LET r == FixImage(cache, base_url, hq, imgs[i])
             asked2 == IF r.asked = None THEN asked ELSE Append(asked, r.asked[1])
         IN  IF r.err # None THEN [err |-> r.err, imgs |-> imgs, asked |-> asked2]
             ELSE FixImagesLoop(cache, base_url, hq, [imgs EXCEPT ![i] = r.attrs],
                                i + 1, asked2)

fix_links(index, cache, hq, base_url, links, imgs) ==
    LET l == FixLinksLoop(index, base_url, links, 1)
    IN  IF l.err # None
        THEN [err |-> l.err, links |-> l.links, imgs |-> imgs, asked |-> <<>>]
        ELSE LET m == FixImagesLoop(cache, base_url, hq, imgs, 1, <<>>)
             IN  [err |-> m.err, links |-> l.links, imgs |-> m.imgs, asked |-> m.asked]

\* the hrefs that are tried: an article of the index, an article that is not
\* in it, a page that is no article, the same article by an absolute and by a
\* relative reference and with a blank after it, and a reference that does
\* not resolve
FixHrefs ==
    { MonPagePath(<<"Bulbasaur">>),
      MonPagePath(<<"Missingno">>),
      <<"/", "wiki", "/", "Bulbasaur">>,
      <<"https:", "/", "/", WIKI_DOMAIN>> \o MonPagePath(<<"Bulbasaur">>),
      <<"Bulbasaur", MON_SUFFIX>>,
      MonPagePath(<<"Bulbasaur">>) \o <<" ">>,
      <<"/", "/", "nowhere">> }

FixLinkPool ==
    [href : {None} \cup {Some(h) : h \in FixHrefs}, title : {None, Some(<<"t">>)}]

FixImgPool ==
    [srcset : {None, Some(<<"x", ".", "png", " ", "2x">>), Some(<<"z", ".", "png", " ", "3x">>)},
     src : {None, Some(<<"s", ".", "png">>), Some(<<"a", " ", "b", ".", "jpg">>)},
     width : {None, Some(<<"96">>)},
     height : {None, Some(<<"64">>)},
     alt : {Some(<<"alt">>)}]

FixBases ==
    {Url(WIKI_DOMAIN, MonPagePath(<<"Bulbasaur">>), None, None),
     Url(WIKI_DOMAIN, MonPagePath(<<"Mr", ".", "_Mime">>), None, None)}

MaxFixLinks == 2
MaxFixImgs == 1

SeqsUpTo(pool, n) == UNION {[1..k -> pool] : k \in 0..n}

\* a subtree of links, or a subtree of images behind at most one link
FixInit ==
    /\ fixBase \in FixBases
    /\ \/ /\ fixLinks \in SeqsUpTo(FixLinkPool, MaxFixLinks)
          /\ fixImgs = <<>>
          /\ fixHq = FALSE
          /\ fixCache = "stores"
       \/ /\ fixLinks \in {<<>>, <<[href |-> Some(MonPagePath(<<"Bulbasaur">>)),
                                    title |-> Some(<<"t">>)]>>}
          /\ fixImgs \in SeqsUpTo(FixImgPool, MaxFixImgs) \ {<<>>}
          /\ fixHq \in BOOLEAN
          /\ fixCache \in {"stores", "compresses", "fails"}
    /\ fixOut = None

FixCall ==
    /\ fixOut = None
    /\ fixOut' = Some(fix_links(FixIndex, fixCache, fixHq, fixBase, fixLinks, fixImgs))
    /\ UNCHANGED <<fixLinks, fixImgs, fixBase, fixHq, fixCache>>
    /\ UNCHANGED notFix

FixNext == FixCall

\* what C11 says of one link: a cross-reference exactly for an href of the
\* article form whose resolved URL is a page of the index
C11_IsArticleRef(href) ==
    /\ Len(href) >= 4
    /\ href[1] = "/" /\ href[2] = "wiki" /\ href[3] = "/"
    /\ href[Len(href)] = MON_SUFFIX
    /\ \E id \in DOMAIN FixIndex : FixIndex[id] = <<"https:", "/", "/", WIKI_DOMAIN>> \o href

\* C11: after a successful fix_links every link without href is as it was;
\* a link whose href has the article form and resolves to the index page of
\* an id has the cross-reference of that id as href and no title; every other
\* link has its resolved absolute URL as href and its title as it was.
C11_LinkRewrite ==
    (fixOut # None /\ fixOut[1].err = None) =>
        /\ Len(fixOut[1].links) = Len(fixLinks)
        /\ \A i \in 1..Len(fixLinks) :
            LET before == fixLinks[i]
                after == fixOut[1].links[i]
            IN  IF before.href = None THEN after = before
                ELSE IF C11_IsArticleRef(before.href[1])
                THEN /\ after.title = None
                     /\ \E id \in DOMAIN FixIndex :
                            /\ FixIndex[id] = UrlStr(UrlJoin(fixBase, before.href[1])[1])
                            /\ after.href = Some(<<"x-dictionary:r:pokemon-">> \o U32Digits(id))
                ELSE /\ after.title = before.title
                     /\ after.href = Some(UrlStr(UrlJoin(fixBase, before.href[1])[1]))

\* fix_links has rewritten a cross-reference, dropping its title, next to a
\* link that resolves to the same page but has not the article form
C11_Witness ==
    /\ fixOut # None /\ fixOut[1].err = None
    /\ Len(fixLinks) = 2
    /\ fixLinks[1] = [href |-> Some(MonPagePath(<<"Bulbasaur">>)), title |-> Some(<<"t">>)]
    /\ fixLinks[2] = [href |-> Some(<<"Bulbasaur", MON_SUFFIX>>), title |-> Some(<<"t">>)]
    /\ fixOut[1].links[1] = [href |-> Some(<<"x-dictionary:r:pokemon-", "1">>), title |-> None]
    /\ fixOut[1].links[2].title = Some(<<"t">>)

\* an image that names no source: no src attribute, and no srcset entry
\* with one of the descriptors that are looked up
C12_NoSource(img) ==
    /\ img.src = None
    /\ \/ img.srcset = None
       \/ \A e \in {Split(img.srcset[1], ",")[k] : k \in 1..Len(Split(img.srcset[1], ","))} :
              \/ RSplitOnce(e, " ") = None
              \/ Trim(RSplitOnce(e, " ")[1][2]) \notin {<<"2x">>, <<"1.5x">>, <<"1x">>}

\* C12: fix_links fails whenever an image of the subtree names no source,
\* and no source is made up for that image and handed to the image cache.
C12_NoSourceIsAnError ==
    (fixOut # None /\ \E i \in 1..Len(fixImgs) : C12_NoSource(fixImgs[i])) =>
        LET first == CHOOSE i \in 1..Len(fixImgs) :
                         /\ C12_NoSource(fixImgs[i])
                         /\ \A j \in 1..(i - 1) : ~C12_NoSource(fixImgs[j])
        IN  /\ fixOut[1].err # None
            /\ Len(fixOut[1].asked) < first

\* the bytes urlencoding::encode leaves alone, and what it makes of the others
C13_Unreserved ==
    {"x", "z", "s", "a", "b", ".", "-", "png", "jpg", "heif", "wiki", "Bulbasaur",
     "Mr", "_Mime", "images/"}
C13_PercentDecode(s) ==
    [i \in 1..Len(s) |->
        IF s[i] = "%2520" THEN "%20"
        ELSE IF s[i] = "_%28Pok%25C3%25A9mon%29" THEN MON_SUFFIX
        ELSE s[i]]

\* C13: after a successful fix_links every image has no srcset, its src is
\* "images/" followed by the percent-encoded identifier the image cache gave
\* for it, its height is gone if it has a width and is as it was otherwise,
\* and its width and its other attributes are as they were.
C13_ImageRewrite ==
    (fixOut # None /\ fixOut[1].err = None) =>
        /\ Len(fixOut[1].imgs) = Len(fixImgs)
        /\ Len(fixOut[1].asked) = Len(fixImgs)
        /\ \A i \in 1..Len(fixImgs) :
            LET before == fixImgs[i]
                after == fixOut[1].imgs[i]
                id == ImageCacheResult(fixCache, fixOut[1].asked[i])[1]
            IN  /\ after.srcset = None
                /\ after.src # None
                /\ Len(after.src[1]) = Len(id) + 1
                /\ after.src[1][1] = "images/"
                /\ C13_PercentDecode(Tail(after.src[1])) = id
                /\ \A k \in 2..Len(after.src[1]) :
                       after.src[1][k] \in C13_Unreserved \cup {"%2520", "_%28Pok%25C3%25A9mon%29"}
                /\ after.width = before.width
                /\ after.alt = before.alt
                /\ after.height = IF before.width # None THEN None ELSE before.height

\* fix_links has rewritten an image with a width, a height and a srcset,
\* whose identifier holds an escaped blank
C13_Witness ==
    /\ fixOut # None /\ fixOut[1].err = None
    /\ Len(fixImgs) >= 1
    /\ fixImgs[1].width # None /\ fixImgs[1].height # None
    /\ fixImgs[1].srcset # None
    /\ \E k \in 1..Len(fixOut[1].imgs[1].src[1]) : fixOut[1].imgs[1].src[1][k] = "%2520"
    /\ fixOut[1].imgs[1].height = None
    /\ fixOut[1].imgs[1].srcset = None

(***************************************************************************)
(* read_mon (mon.rs): the rows of the info box                             *)
(***************************************************************************)
FIRST_EXTRA_INFO_BOX == "Gender ratio"

\* one pass of the loop over the element children of the tbody; a row is
\* known by its place among the children
RowStepNoLatch(acc, children, i) ==
    IF ~children[i].el THEN acc
    ELSE IF acc.header_box = None THEN [acc EXCEPT !.header_box = Some(i)]
    ELSE IF StartsWith(Trim(children[i].text), <<FIRST_EXTRA_INFO_BOX>>)
         THEN [acc EXCEPT !.extra_info_nodes = Append(@, i)]
         ELSE [acc EXCEPT !.top_info_nodes = Append(@, i)]

RowStep(acc, children, i) ==
    IF ~children[i].el THEN acc
    ELSE IF acc.header_box = None THEN [acc EXCEPT !.header_box = Some(i)]
    ELSE LET is_extra == \/ acc.is_extra
                         \/ StartsWith(Trim(children[i].text), <<FIRST_EXTRA_INFO_BOX>>)
         IN  IF is_extra
             THEN [acc EXCEPT !.is_extra = TRUE, !.extra_info_nodes = Append(@, i)]
             ELSE [acc EXCEPT !.top_info_nodes = Append(@, i)]

RECURSIVE RowFold(_, _, _)
RowFold(acc, children, i) ==
    IF i > Len(children) THEN acc
    ELSE RowFold(RowStep(acc, children, i), children, i + 1)

InfoRows(children) ==
    RowFold([header_box |-> None, is_extra |-> FALSE,
             top_info_nodes |-> <<>>, extra_info_nodes |-> <<>>], children, 1)

\* the children of a tbody: rows with their text, and text nodes between them
RowChildPool ==
    {[el |-> FALSE, text |-> <<" ">>]} \cup
    [el : {TRUE},
     text : {<<>>, <<"x">>, <<FIRST_EXTRA_INFO_BOX>>,
             <<" ", FIRST_EXTRA_INFO_BOX, "x">>, <<"x", FIRST_EXTRA_INFO_BOX>>}]

MaxRowChildren == 4

RowInit ==
    /\ rowTexts \in SeqsUpTo(RowChildPool, MaxRowChildren)
    /\ rowOut = None

RowCall ==
    /\ rowOut = None
    /\ rowOut' = Some(InfoRows(rowTexts))
    /\ UNCHANGED rowTexts
    /\ UNCHANGED notRow

RowNext == RowCall

\* the rows, the rows after the header, and those of them that open the
\* extra info
C14_Rows == {i \in 1..Len(rowTexts) : rowTexts[i].el}
C14_Rest == {i \in C14_Rows : \E j \in C14_Rows : j < i}
C14_Marked ==
    {i \in C14_Rest :
        \E k \in 1..Len(rowTexts[i].text) :
            /\ rowTexts[i].text[k] = "Gender ratio"
            /\ \A j \in 1..(k - 1) : rowTexts[i].text[j] = " "}
C14_Lists(seq, set) ==
    /\ Len(seq) = Cardinality(set)
    /\ \A i \in set : \E k \in 1..Len(seq) : seq[k] = i
    /\ \A k \in 1..Len(seq) : seq[k] \in set
    /\ \A k \in 1..(Len(seq) - 1) : seq[k] < seq[k + 1]

\* C14: the first row is the header and is in neither collection; the rows
\* after it that come before the first row whose trimmed text begins with the
\* marker are the top info, in order, and that row and every row after it
\* are the extra info, in order, so that each row after the header is in
\* exactly one collection.
C14_RowPartition ==
    rowOut # None =>
        /\ rowOut[1].header_box =
               IF C14_Rows = {} THEN None
               ELSE Some(CHOOSE i \in C14_Rows : \A j \in C14_Rows : i <= j)
        /\ C14_Lists(rowOut[1].top_info_nodes,
                     {i \in C14_Rest : \A m \in C14_Marked : i < m})
        /\ C14_Lists(rowOut[1].extra_info_nodes,
                     {i \in C14_Rest : \E m \in C14_Marked : m <= i})

\* a header that itself begins with the marker, then a top row, the marker
\* row and an unmarked row after it
C14_Witness ==
    /\ rowOut # None
    /\ Len(rowTexts) = 4
    /\ \A i \in 1..4 : rowTexts[i].el
    /\ rowTexts[1].text = <<"Gender ratio">>
    /\ rowTexts[3].text = <<" ", "Gender ratio", "x">>
    /\ rowTexts[4].text = <<"x">>
    /\ rowOut[1].header_box = Some(1)
    /\ rowOut[1].top_info_nodes = <<2>>
    /\ rowOut[1].extra_info_nodes = <<3, 4>>

(***************************************************************************)
(* read_mon (mon.rs): the category fragments                               *)
(***************************************************************************)
\* one child of the category item: a <br> opens a new, empty fragment, any
\* other node is appended to the last fragment, or is the first one
CatStep(categories, node) ==
    IF node = "br" THEN Append(categories, <<>>)
    ELSE IF categories # <<>>
         THEN [categories EXCEPT ![Len(categories)] = Append(@, node)]
         ELSE <<<<node>>>>

RECURSIVE CatFold(_, _, _)
CatFold(categories, nodes, i) ==
    IF i > Len(nodes) THEN categories
    ELSE CatFold(CatStep(categories, nodes[i]), nodes, i + 1)

\* if categories.last().map_or(false, |s| s.is_empty()) { categories.pop(); }
CatPopEmpty(categories) ==
    IF categories # <<>> /\ categories[Len(categories)] = <<>>
    THEN SubSeq(categories, 1, Len(categories) - 1)
    ELSE categories

Categories(nodes) == CatPopEmpty(CatFold(<<>>, nodes, 1))

\* the children of the category item: line breaks, and nodes with content
CatNodePool == {"br", "Seed", "Pokemon"}

MaxCatNodes == 4

CatInit ==
    /\ catNodes \in SeqsUpTo(CatNodePool, MaxCatNodes)
    /\ catOut = None

CatCall ==
    /\ catOut = None
    /\ catOut' = Some(Categories(catNodes))
    /\ UNCHANGED catNodes
    /\ UNCHANGED notCat

CatNext == CatCall

\* C15: whatever the children of the category item are, the list of
\* fragments does not end with an empty fragment.
C15_NoTrailingEmptyFragment ==
    catOut # None =>
        \/ catOut[1] = <<>>
        \/ catOut[1][Len(catOut[1])] # <<>>

(***************************************************************************)
(* read_mon (mon.rs): the rows and cells of the image box                  *)
(***************************************************************************)
\* get_attr(node, "style").map(parse_simple_style_attr).unwrap_or_default()
StyleOf(node) == IF node.style = None THEN EmptyMap ELSE parse_simple_style_attr(node.style[1])

\* style.get("display").map_or(false, |d| d == "none")
DisplayNone(node) ==
    /\ <<"display">> \in DOMAIN StyleOf(node)
    /\ StyleOf(node)[<<"display">>] = <<"none">>

\* the number of cells of the row that are not hidden
ChildCount(tr) == Cardinality({k \in 1..Len(tr.cells) : ~DisplayNone(tr.cells[k])})

\* the loop over the cells of one row: an image is recorded by the place of
\* its row and of its cell; a cell without image is an error unless the text
\* of the row contains "Archives"
RECURSIVE GalCells(_, _, _, _)
GalCells(rows, r, k, images) ==
    IF k > Len(rows[r].cells) THEN [images |-> images, err |-> None]
    ELSE LET td == rows[r].cells[k]
         IN  IF DisplayNone(td) THEN GalCells(rows, r, k + 1, images)
             ELSE IF td.img
             THEN GalCells(rows, r, k + 1,
                           Append(images, [row |-> r, cell |-> k,
                                           flex |-> ChildCount(rows[r]) > 1]))
             ELSE IF ~rows[r].archives
             THEN [images |-> images, err |-> Some("unexpected img box child")]
             ELSE GalCells(rows, r, k + 1, images)

\* the loop over the rows: a hidden row is skipped
RECURSIVE GalRows(_, _, _)
GalRows(rows, r, images) ==
    IF r > Len(rows) THEN [images |-> images, err |-> None]
    ELSE IF DisplayNone(rows[r]) THEN GalRows(rows, r + 1, images)
    ELSE LET c == GalCells(rows, r, 1, images)
         IN  IF c.err # None THEN c ELSE GalRows(rows, r + 1, c.images)

GalleryImages(rows) == GalRows(rows, 1, <<>>)

\* style attributes that occur on rows and cells
GalStyles == {None, Some(<<"display", ":", " ", "none">>)}

GalCellPool == [img : BOOLEAN, style : GalStyles]

MaxGalCells == 2
MaxGalRows == 1

GalRowPool(n) == [style : GalStyles, archives : BOOLEAN, cells : SeqsUpTo(GalCellPool, n)]

\* the rows that are tried, behind nothing, a hidden row or a row of two
\* images
GalInit ==
    /\ \E first \in {<<>>,
                     <<[style |-> Some(<<"display", ":", " ", "none">>), archives |-> FALSE,
                        cells |-> <<[img |-> TRUE, style |-> None]>>]>>,
                     <<[style |-> None, archives |-> FALSE,
                        cells |-> <<[img |-> TRUE, style |-> None],
                                    [img |-> TRUE, style |-> None]>>]>>} :
          \E rest \in SeqsUpTo(GalRowPool(MaxGalCells), MaxGalRows) :
              galRows = first \o rest
    /\ galOut = None

GalCall ==
    /\ galOut = None
    /\ galOut' = Some(GalleryImages(galRows))
    /\ UNCHANGED galRows
    /\ UNCHANGED notGal

GalNext == GalCall

\* a cell that is not hidden: no display:none in its style
C16_Shown(td) ==
    \/ td.style = None
    \/ td.style[1] # <<"display", ":", " ", "none">>

\* C16: an image is flex exactly if its row has another cell that is not
\* hidden and holds an image.
C16_FlexIffOtherImage ==
    (galOut # None /\ galOut[1].err = None) =>
        \A n \in 1..Len(galOut[1].images) :
            LET im == galOut[1].images[n]
                cells == galRows[im.row].cells
            IN  im.flex <=> \E k \in 1..Len(cells) :
                                k # im.cell /\ C16_Shown(cells[k]) /\ cells[k].img

(***************************************************************************)
(* generate_mon (gen.rs): the list of images                               *)
(***************************************************************************)
\* what is written: the opening and the closing of a flex group, and the
\* item of image i (images are counted from 1 here, from 0 in the id
\* attribute written)
FlexOpen == [t |-> "open", i |-> 0]
FlexClose == [t |-> "close", i |-> 0]
ImageItem(i) == [t |-> "img", i |-> i]

\* while i < mon.images.len() && mon.images[i].flex { render_image; i += 1 }
RECURSIVE RenderRun(_, _, _)
RenderRun(flags, i, out) ==
    IF i <= Len(flags) /\ flags[i]
    THEN RenderRun(flags, i + 1, Append(out, ImageItem(i)))
    ELSE [i |-> i, out |-> out]

\* a loop body that opens a group for every flex image
RenderStepGroupsLone(flags, i, out) ==
    IF flags[i]
    THEN LET run == RenderRun(flags, i, Append(out, FlexOpen))
         IN  [i |-> run.i, out |-> Append(run.out, FlexClose)]
    ELSE [i |-> i + 1, out |-> Append(out, ImageItem(i))]

\* the body of the outer loop: a group is opened if this image and the next
\* are flex
RenderStep(flags, i, out) ==
    IF flags[i] /\ (i + 1 <= Len(flags) /\ flags[i + 1])
    THEN LET run == RenderRun(flags, i, Append(out, FlexOpen))
         IN  [i |-> run.i, out |-> Append(run.out, FlexClose)]
    ELSE [i |-> i + 1, out |-> Append(out, ImageItem(i))]

RECURSIVE RenderLoop(_, _, _)
RenderLoop(flags, i, out) ==
    IF i > Len(flags) THEN out
    ELSE LET s == RenderStep(flags, i, out)
         IN  RenderLoop(flags, s.i, s.out)

RenderImages(flags) == RenderLoop(flags, 1, <<>>)

MaxImages == 5

RenInit ==
    /\ renFlags \in SeqsUpTo(BOOLEAN, MaxImages)
    /\ renOut = None

RenCall ==
    /\ renOut = None
    /\ renOut' = Some(RenderImages(renFlags))
    /\ UNCHANGED renFlags
    /\ UNCHANGED notRen

RenNext == RenCall

\* the place of the item of image k in what was written, the group it is
\* in (the place of the opening, 0 for none), and the maximal runs of flex
\* images
C17_Place(k) == CHOOSE p \in 1..Len(renOut[1]) : renOut[1][p] = [t |-> "img", i |-> k]
C17_Group(k) ==
    LET opens == {p \in 1..C17_Place(k) :
                     /\ renOut[1][p].t = "open"
                     /\ \A q \in p..C17_Place(k) : renOut[1][q].t # "close"}
    IN  IF opens = {} THEN 0 ELSE CHOOSE p \in opens : \A q \in opens : q <= p
C17_Runs ==
    {r \in (1..Len(renFlags)) \X (1..Len(renFlags)) :
        /\ r[1] <= r[2]
        /\ \A k \in r[1]..r[2] : renFlags[k]
        /\ (r[1] = 1 \/ ~renFlags[r[1] - 1])
        /\ (r[2] = Len(renFlags) \/ ~renFlags[r[2] + 1])}
C17_Count(t) == Cardinality({p \in 1..Len(renOut[1]) : renOut[1][p].t = t})
C17_EveryImageOnceInOrder ==
    /\ C17_Count("img") = Len(renFlags)
    /\ \A k \in 1..Len(renFlags) : \E p \in 1..Len(renOut[1]) : renOut[1][p] = [t |-> "img", i |-> k]
    /\ \A k \in 1..(Len(renFlags) - 1) : C17_Place(k) < C17_Place(k + 1)
C17_RunIsOneGroup(r) ==
    /\ C17_Group(r[1]) # 0
    /\ \A k \in 1..Len(renFlags) :
           (C17_Group(k) = C17_Group(r[1])) <=> (r[1] <= k /\ k <= r[2])

\* C17 as stated: every image is written once, in order, and every maximal
\* run of flex images, of whatever length, is exactly one flex group.
C17_EveryRunIsAGroup ==
    renOut # None =>
        /\ C17_EveryImageOnceInOrder
        /\ \A r \in C17_Runs : C17_RunIsOneGroup(r)
        /\ C17_Count("open") = Cardinality(C17_Runs)
        /\ C17_Count("close") = Cardinality(C17_Runs)
        /\ \A k \in 1..Len(renFlags) : ~renFlags[k] => C17_Group(k) = 0

\* C17, amended: every image is written once, in order; every maximal run of
\* two or more flex images is exactly one flex group; a flex image with no
\* flex neighbour and every image that is not flex is written outside any
\* group; there are no other groups.
C17_RunsOfTwoOrMoreAreGroups ==
    renOut # None =>
        /\ C17_EveryImageOnceInOrder
        /\ \A r \in C17_Runs :
               IF r[1] < r[2] THEN C17_RunIsOneGroup(r) ELSE C17_Group(r[1]) = 0
        /\ C17_Count("open") = Cardinality({r \in C17_Runs : r[1] < r[2]})
        /\ C17_Count("close") = Cardinality({r \in C17_Runs : r[1] < r[2]})
        /\ \A k \in 1..Len(renFlags) : ~renFlags[k] => C17_Group(k) = 0

\* a run of two, an image that is not flex, and a lone flex image: one group
C17_Witness ==
    /\ renOut # None
    /\ renFlags = <<TRUE, TRUE, FALSE, TRUE>>
    /\ renOut[1] = <<[t |-> "open", i |-> 0], [t |-> "img", i |-> 1], [t |-> "img", i |-> 2],
                     [t |-> "close", i |-> 0], [t |-> "img", i |-> 3], [t |-> "img", i |-> 4]>>

(***************************************************************************)
(* read_mon (mon.rs): the summary and the body                             *)
(***************************************************************************)
\* the state of the loop over the children of .mw-parser-output; a child is
\* known by its place
BodyStart ==
    [tables_seen |-> 0, h2s_seen |-> 0, is_in_body |-> FALSE, stopped |-> FALSE,
     err |-> None, summary_nodes |-> <<>>, body_nodes |-> <<>>]

BodyPush(acc, node, i) ==
    IF ~node.fixable THEN [acc EXCEPT !.err = Some("error fixing summary links")]
    ELSE IF acc.is_in_body THEN [acc EXCEPT !.body_nodes = Append(@, i)]
    ELSE [acc EXCEPT !.summary_nodes = Append(@, i)]

\* a loop body that stops after the heading that exceeds the maximum
BodyStepKeepsLastHeading(acc, node, i, max_body_sections) ==
    IF node.id = Some("toc") THEN [acc EXCEPT !.is_in_body = TRUE]
    ELSE LET tables == IF node.tag = "table" THEN acc.tables_seen + 1 ELSE acc.tables_seen
             h2s == IF node.tag = "h2" THEN acc.h2s_seen + 1 ELSE acc.h2s_seen
             seen == [acc EXCEPT !.tables_seen = tables, !.h2s_seen = h2s]
         IN  IF node.tag = "table" /\ tables < 3 THEN [acc EXCEPT !.tables_seen = tables]
             ELSE IF h2s > max_body_sections
             THEN [BodyPush(seen, node, i) EXCEPT !.stopped = TRUE]
             ELSE BodyPush(seen, node, i)

\* a loop body in which a table of contents ends the body again
BodyStepTocToggles(acc, node, i, max_body_sections) ==
    IF node.id = Some("toc") THEN [acc EXCEPT !.is_in_body = ~acc.is_in_body]
    ELSE LET tables == IF node.tag = "table" THEN acc.tables_seen + 1 ELSE acc.tables_seen
             h2s == IF node.tag = "h2" THEN acc.h2s_seen + 1 ELSE acc.h2s_seen
             seen == [acc EXCEPT !.tables_seen = tables, !.h2s_seen = h2s]
         IN  IF node.tag = "table" /\ tables < 3 THEN [acc EXCEPT !.tables_seen = tables]
             ELSE IF h2s > max_body_sections THEN [seen EXCEPT !.stopped = TRUE]
             ELSE BodyPush(seen, node, i)

\* the body of the loop: the table of contents, the first two tables, the
\* count of headings and the break, fix_links and the push
BodyStep(acc, node, i, max_body_sections) ==
    IF node.id = Some("toc") THEN [acc EXCEPT !.is_in_body = TRUE]
    ELSE LET tables == IF node.tag = "table" THEN acc.tables_seen + 1 ELSE acc.tables_seen
             h2s == IF node.tag = "h2" THEN acc.h2s_seen + 1 ELSE acc.h2s_seen
             seen == [acc EXCEPT !.tables_seen = tables, !.h2s_seen = h2s]
         IN  IF node.tag = "table" /\ tables < 3 THEN [acc EXCEPT !.tables_seen = tables]
             ELSE IF h2s > max_body_sections THEN [seen EXCEPT !.stopped = TRUE]
             ELSE BodyPush(seen, node, i)

RECURSIVE BodyLoop(_, _, _, _)
BodyLoop(acc, nodes, i, max_body_sections) ==
    IF i > Len(nodes) \/ acc.stopped \/ acc.err # None THEN acc
    ELSE BodyLoop(BodyStep(acc, nodes[i], i, max_body_sections), nodes, i + 1,
                  max_body_sections)

\* what read_mon goes on with: the two lists, or the error of fix_links
ExtractBody(nodes, max_body_sections) ==
    LET acc == BodyLoop(BodyStart, nodes, 1, max_body_sections)
    IN  IF acc.err # None THEN [err |-> acc.err, summary_nodes |-> <<>>, body_nodes |-> <<>>]
        ELSE [err |-> None, summary_nodes |-> acc.summary_nodes,
              body_nodes |-> acc.body_nodes]

\* the children that are tried: a heading, a table, a paragraph, a table of
\* contents as a div and as a table, and a paragraph fix_links fails on
BodyNodePool ==
    { [tag |-> "h2", id |-> None, fixable |-> TRUE],
      [tag |-> "table", id |-> None, fixable |-> TRUE],
      [tag |-> "p", id |-> None, fixable |-> TRUE],
      [tag |-> "div", id |-> Some("toc"), fixable |-> TRUE],
      [tag |-> "table", id |-> Some("toc"), fixable |-> TRUE],
      [tag |-> "p", id |-> None, fixable |-> FALSE] }

MaxBodyNodes == 5
MaxSections == 2

BodyInit ==
    /\ bodyNodes \in SeqsUpTo(BodyNodePool, MaxBodyNodes)
    /\ bodyMax \in 0..MaxSections
    /\ bodyOut = None

BodyCall ==
    /\ bodyOut = None
    /\ bodyOut' = Some(ExtractBody(bodyNodes, bodyMax))
    /\ UNCHANGED <<bodyNodes, bodyMax>>
    /\ UNCHANGED notBody

BodyNext == BodyCall

\* the tables of contents, the headings and the tables among the children (a
\* table of contents is neither a heading nor a table here), the tables that
\* are skipped, and the place of the heading after the last section
C18_Tocs == {i \in 1..Len(bodyNodes) : bodyNodes[i].id = Some("toc")}
C18_H2s == {i \in 1..Len(bodyNodes) : bodyNodes[i].tag = "h2" /\ i \notin C18_Tocs}
C18_Tables == {i \in 1..Len(bodyNodes) : bodyNodes[i].tag = "table" /\ i \notin C18_Tocs}
C18_SkippedTables ==
    {i \in C18_Tables : Cardinality({j \in C18_Tables : j < i}) < 2}
C18_CutOff ==
    LET over == {i \in C18_H2s : Cardinality({j \in C18_H2s : j <= i}) = bodyMax + 1}
    IN  IF over = {} THEN Len(bodyNodes) + 1 ELSE CHOOSE i \in over : TRUE
C18_Retained ==
    {bodyOut[1].summary_nodes[k] : k \in 1..Len(bodyOut[1].summary_nodes)} \cup
    {bodyOut[1].body_nodes[k] : k \in 1..Len(bodyOut[1].body_nodes)}

\* C18: after a successful extraction no child at or after heading number
\* max_body_sections + 1 is retained, at most max_body_sections headings are
\* retained, and every child before that heading other than the tables of
\* contents and the skipped tables is retained.
C18_StopsAtSectionLimit ==
    (bodyOut # None /\ bodyOut[1].err = None) =>
        /\ \A i \in C18_Retained : i < C18_CutOff
        /\ Cardinality(C18_Retained \cap C18_H2s) <= bodyMax
        /\ \A i \in 1..(C18_CutOff - 1) :
               i \notin C18_Tocs \cup C18_SkippedTables => i \in C18_Retained

\* three sections with a limit of one: the children of the first section are
\* retained, the second heading and what follows it are not
C18_Witness ==
    /\ bodyOut # None /\ bodyOut[1].err = None
    /\ bodyMax = 1
    /\ Len(bodyNodes) = 5
    /\ bodyNodes[1].tag = "p" /\ bodyNodes[1].fixable
    /\ bodyNodes[2].tag = "h2"
    /\ bodyNodes[3].tag = "p" /\ bodyNodes[3].fixable
    /\ bodyNodes[4].tag = "h2"
    /\ bodyNodes[5].tag = "p" /\ ~bodyNodes[5].fixable
    /\ bodyOut[1].summary_nodes = <<1, 2, 3>>
    /\ bodyOut[1].body_nodes = <<>>

\* a list holds exactly the children of a set, in their order
C19_Lists(seq, set) ==
    /\ Len(seq) = Cardinality(set)
    /\ \A k \in 1..Len(seq) : seq[k] \in set
    /\ \A k \in 1..(Len(seq) - 1) : seq[k] < seq[k + 1]
C19_BeforeFirstToc(i) == \A t \in C18_Tocs : i < t
C19_SummaryAndBody ==
    /\ C19_Lists(bodyOut[1].summary_nodes, {i \in C18_Retained : C19_BeforeFirstToc(i)})
    /\ C19_Lists(bodyOut[1].body_nodes, {i \in C18_Retained : ~C19_BeforeFirstToc(i)})
    /\ C18_Retained \cap C18_Tocs = {}

\* C19 as stated: the retained children before the first table of contents
\* are the summary and those after it the body, in order, no table of
\* contents is in either; the first two tables are omitted, and every later
\* table is retained.
C19_EveryLaterTableRetained ==
    (bodyOut # None /\ bodyOut[1].err = None) =>
        /\ C19_SummaryAndBody
        /\ C18_Retained \cap C18_SkippedTables = {}
        /\ \A i \in C18_Tables \ C18_SkippedTables : i \in C18_Retained

\* C19, amended: as stated, but only the later tables that come before the
\* heading that ends the extraction are retained.
C19_LaterTablesBeforeCutOffRetained ==
    (bodyOut # None /\ bodyOut[1].err = None) =>
        /\ C19_SummaryAndBody
        /\ C18_Retained \cap C18_SkippedTables = {}
        /\ \A i \in C18_Tables \ C18_SkippedTables : i \in C18_Retained <=> i < C18_CutOff

\* a paragraph in the summary, two tables omitted on either side of the
\* table of contents, and a third table in the body
C19_Witness ==
    /\ bodyOut # None /\ bodyOut[1].err = None
    /\ Len(bodyNodes) = 5
    /\ bodyNodes[1].tag = "p"
    /\ bodyNodes[2] = [tag |-> "table", id |-> None, fixable |-> TRUE]
    /\ bodyNodes[3].id = Some("toc")
    /\ bodyNodes[4] = [tag |-> "table", id |-> None, fixable |-> TRUE]
    /\ bodyNodes[5] = [tag |-> "table", id |-> None, fixable |-> TRUE]
    /\ bodyOut[1].summary_nodes = <<1>>
    /\ bodyOut[1].body_nodes = <<5>>

(***************************************************************************)
(* XhtmlEscaped and XhtmlSerializer (xhtml.rs): text and attribute values  *)
(***************************************************************************)
\* an escape that lets "&" through
EscapeCharKeepsAmp(c, attr_mode) ==
    IF c = "\"" /\ attr_mode THEN <<"&", "q", "u", "o", "t", ";">>
    ELSE IF c = "<" /\ ~attr_mode THEN <<"&", "l", "t", ";">>
    ELSE IF c = ">" /\ ~attr_mode THEN <<"&", "g", "t", ";">>
    ELSE <<c>>

\* the match on one character in Display for XhtmlEscaped
EscapeChar(c, attr_mode) ==
    IF c = "&" THEN <<"&", "a", "m", "p", ";">>
    ELSE IF c = "\"" /\ attr_mode THEN <<"&", "q", "u", "o", "t", ";">>
    ELSE IF c = "<" /\ ~attr_mode THEN <<"&", "l", "t", ";">>
    ELSE IF c = ">" /\ ~attr_mode THEN <<"&", "g", "t", ";">>
    ELSE <<c>>

\* for c in text.chars() { .. }
RECURSIVE XhtmlEscaped(_, _)
XhtmlEscaped(text, attr_mode) ==
    IF text = <<>> THEN <<>>
    ELSE EscapeChar(Head(text), attr_mode) \o XhtmlEscaped(Tail(text), attr_mode)

\* XhtmlSerializer::write_text, and the value of an attribute in start_elem
write_text(text) == XhtmlEscaped(text, FALSE)
WriteAttrValue(value) == XhtmlEscaped(value, TRUE)

EscChars == {"&", "<", ">", "\"", "l", "t", ";"}
MaxEscLen == 4

EscInit ==
    /\ escIn \in Strings(EscChars, MaxEscLen)
    /\ escOut = None

EscWriteText ==
    /\ escOut = None
    /\ escOut' = Some([attr_mode |-> FALSE, out |-> write_text(escIn)])
    /\ UNCHANGED escIn
    /\ UNCHANGED notEsc

EscWriteAttr ==
    /\ escOut = None
    /\ escOut' = Some([attr_mode |-> TRUE, out |-> WriteAttrValue(escIn)])
    /\ UNCHANGED escIn
    /\ UNCHANGED notEsc

EscNext == EscWriteText \/ EscWriteAttr

\* the character references a reader of XHTML resolves, and the reading of a
\* string that holds them
C20_Entities ==
    { [name |-> <<"&", "a", "m", "p", ";">>, char |-> "&"],
      [name |-> <<"&", "l", "t", ";">>, char |-> "<"],
      [name |-> <<"&", "g", "t", ";">>, char |-> ">"],
      [name |-> <<"&", "q", "u", "o", "t", ";">>, char |-> "\""] }
C20_EntityAt(s, p) ==
    {e \in C20_Entities :
        /\ p + Len(e.name) - 1 <= Len(s)
        /\ SubSeq(s, p, p + Len(e.name) - 1) = e.name}
RECURSIVE C20_Decode(_, _)
C20_Decode(s, p) ==
    IF p > Len(s) THEN <<>>
    ELSE IF C20_EntityAt(s, p) # {}
    THEN LET e == CHOOSE e \in C20_EntityAt(s, p) : TRUE
         IN  <<e.char>> \o C20_Decode(s, p + Len(e.name))
    ELSE <<s[p]>> \o C20_Decode(s, p + 1)

\* C20: what is written for a text or for an attribute value reads back as
\* the string that was given; the text holds no "<" and no ">", the
\* attribute value no quotation mark, and every "&" written begins a
\* character reference.
C20_EscapeRoundTrip ==
    escOut # None =>
        LET out == escOut[1].out
        IN  /\ C20_Decode(out, 1) = escIn
            /\ \A p \in 1..Len(out) :
                   /\ ~escOut[1].attr_mode => out[p] \notin {"<", ">"}
                   /\ escOut[1].attr_mode => out[p] # "\""
                   /\ out[p] = "&" => C20_EntityAt(out, p) # {}

\* a text and an attribute value that held the letters of a character
\* reference, an angle bracket or a quotation mark
C20_Witness ==
    /\ escOut # None
    /\ \/ /\ ~escOut[1].attr_mode
          /\ escIn = <<"&", "l", "t", ";">>
          /\ escOut[1].out = <<"&", "a", "m", "p", ";", "l", "t", ";">>
       \/ /\ escOut[1].attr_mode
          /\ escIn = <<"\"", "<">>
          /\ escOut[1].out = <<"&", "q", "u", "o", "t", ";", "<">>

(***************************************************************************)
(* roman_numerals (gen.rs) and the generation heading of read_index        *)
(* (index.rs)                                                              *)
(***************************************************************************)
\* the table of roman_numerals: for each decimal place the numerals of the
\* digits 1 to 9
RomanTable == <<
    [ord |-> 1000, num |-> << <<"M">>, <<"M", "M">>, <<"M", "M", "M">>, <<"?">>, <<"?">>,
                              <<"?">>, <<"?">>, <<"?">>, <<"?">> >>],
    [ord |-> 100, num |-> << <<"C">>, <<"C", "C">>, <<"C", "C", "C">>, <<"C", "D">>, <<"D">>,
                             <<"D", "C">>, <<"D", "C", "C">>, <<"D", "C", "C", "C">>,
                             <<"C", "M">> >>],
    [ord |-> 10, num |-> << <<"X">>, <<"X", "X">>, <<"X", "X", "X">>, <<"X", "L">>, <<"L">>,
                            <<"L", "X">>, <<"L", "X", "X">>, <<"L", "X", "X", "X">>,
                            <<"X", "C">> >>],
    [ord |-> 1, num |-> << <<"I">>, <<"I", "I">>, <<"I", "I", "I">>, <<"I", "V">>, <<"V">>,
                           <<"V", "I">>, <<"V", "I", "I">>, <<"V", "I", "I", "I">>,
                           <<"I", "X">> >>] >>

\* for &(ord, num) in numerals { .. }
RECURSIVE RomanPlaces(_, _, _)
RomanPlaces(i, k, out) ==
    IF k > Len(RomanTable) THEN out
    ELSE LET ord == RomanTable[k].ord
             x == i \div ord
         IN  RomanPlaces(i - ord * x, k + 1,
                         IF x > 0 /\ x < 10 THEN out \o RomanTable[k].num[x] ELSE out)

roman_numerals(i) == RomanPlaces(i, 1, <<>>)

\* the heading of a generation as the index page has it
GenTitle(numerals) == <<"Generation ">> \o numerals

\* the match on one character of the heading
RomanValue(c) ==
    IF c = "I" THEN 1
    ELSE IF c = "V" THEN 5
    ELSE IF c = "X" THEN 10
    ELSE IF c = "L" THEN 50
    ELSE IF c = "C" THEN 100
    ELSE IF c = "D" THEN 500
    ELSE IF c = "M" THEN 1000
    ELSE 0

\* .map(..).filter(|i| *i != 0).collect()
RECURSIVE RomanValues(_)
RomanValues(chars) ==
    IF chars = <<>> THEN <<>>
    ELSE IF RomanValue(Head(chars)) # 0
         THEN <<RomanValue(Head(chars))>> \o RomanValues(Tail(chars))
         ELSE RomanValues(Tail(chars))

\* a loop body that leaves the smaller numeral in place
RomanPairStepKeepsFirst(values, i) ==
    IF values[i + 1] > values[i]
    THEN [values EXCEPT ![i + 1] = values[i + 1] - values[i]]
    ELSE values

\* the body of the loop over the pairs: a numeral before a greater one is
\* taken off it, in place
RomanPairStep(values, i) ==
    IF values[i + 1] > values[i]
    THEN [values EXCEPT ![i + 1] = values[i + 1] - values[i], ![i] = 0]
    ELSE values

RECURSIVE RomanPairs(_, _)
RomanPairs(values, i) ==
    IF i > Len(values) - 1 THEN values
    ELSE RomanPairs(RomanPairStep(values, i), i + 1)

RECURSIVE SumSeq(_)
SumSeq(values) == IF values = <<>> THEN 0 ELSE Head(values) + SumSeq(Tail(values))

\* the generation read from a heading: an error if it does not start with
\* "Generation "; with no numeral in it roman_numerals.len() - 1 overflows
\* and the thread panics, on the subtraction or on the first index
ParseGeneration(gen_title) ==
    IF ~StartsWith(gen_title, <<"Generation ">>)
    THEN [err |-> Some("generation title does not start with Generation"),
          panicked |-> FALSE, generation |-> None]
    ELSE LET values == RomanValues(Tail(gen_title))
         IN  IF values = <<>>
             THEN [err |-> None, panicked |-> TRUE, generation |-> None]
             ELSE [err |-> None, panicked |-> FALSE,
                   generation |-> Some(SumSeq(RomanPairs(values, 1)))]

\* the greatest number whose every digit has a numeral in the table
RomanMax == 3999

\* how far beyond it the numbers go that are tried
MaxBeyondRoman == 1

RomInit ==
    /\ romN \in 1..(RomanMax + MaxBeyondRoman)
    /\ romText = None
    /\ romOut = None

\* generate_front_matter writes the numerals of a generation
RomFormat ==
    /\ romText = None
    /\ romText' = Some(roman_numerals(romN))
    /\ UNCHANGED <<romN, romOut>>
    /\ UNCHANGED notRom

\* read_index reads a heading that holds these numerals
RomParse ==
    /\ romText # None
    /\ romOut = None
    /\ romOut' = Some(ParseGeneration(GenTitle(romText[1])))
    /\ UNCHANGED <<romN, romText>>
    /\ UNCHANGED notRom

RomNext == RomFormat \/ RomParse

\* C24: for every n from 1 to 3999 the generation read from the heading that
\* holds roman_numerals(n) is n.
C24_RomanRoundTrip ==
    (romOut # None /\ romN >= 1 /\ romN <= 3999) =>
        /\ romOut[1].err = None
        /\ ~romOut[1].panicked
        /\ romOut[1].generation = Some(romN)

\* 1994 has been written as MCMXCIV and read back
C24_Witness ==
    /\ romN = 1994
    /\ romText = Some(<<"M", "C", "M", "X", "C", "I", "V">>)
    /\ romOut # None
    /\ romOut[1].generation = Some(1994)

(***************************************************************************)
(* The components at rest, and the specifications                          *)
(***************************************************************************)
FixIdle ==
    /\ fixLinks = <<>> /\ fixImgs = <<>> /\ fixBase = <<>>
    /\ fixHq = FALSE /\ fixCache = "" /\ fixOut = None
RowIdle == rowTexts = <<>> /\ rowOut = None
CatIdle == catNodes = <<>> /\ catOut = None
GalIdle == galRows = <<>> /\ galOut = None
RenIdle == renFlags = <<>> /\ renOut = None
BodyIdle == bodyNodes = <<>> /\ bodyMax = 0 /\ bodyOut = None
EscIdle == escIn = <<>> /\ escOut = None
RomIdle == romN = 0 /\ romText = None /\ romOut = None

SpecDexInit ==
    /\ DexInit
    /\ StyleIdle /\ ThumbIdle /\ SrcIdle /\ RunIdle /\ MonIdle /\ FixIdle
    /\ RowIdle /\ CatIdle /\ GalIdle /\ RenIdle /\ BodyIdle /\ EscIdle
    /\ RomIdle
SpecStyleInit ==
    /\ StyleInit
    /\ DexIdle /\ ThumbIdle /\ SrcIdle /\ RunIdle /\ MonIdle /\ FixIdle
    /\ RowIdle /\ CatIdle /\ GalIdle /\ RenIdle /\ BodyIdle /\ EscIdle
    /\ RomIdle
SpecThumbInit ==
    /\ ThumbInit
    /\ DexIdle /\ StyleIdle /\ SrcIdle /\ RunIdle /\ MonIdle /\ FixIdle
    /\ RowIdle /\ CatIdle /\ GalIdle /\ RenIdle /\ BodyIdle /\ EscIdle
    /\ RomIdle
SpecSrcInit ==
    /\ SrcInit
    /\ DexIdle /\ StyleIdle /\ ThumbIdle /\ RunIdle /\ MonIdle /\ FixIdle
    /\ RowIdle /\ CatIdle /\ GalIdle /\ RenIdle /\ BodyIdle /\ EscIdle
    /\ RomIdle
SpecRunInit ==
    /\ RunInit
    /\ DexIdle /\ StyleIdle /\ ThumbIdle /\ SrcIdle /\ MonIdle /\ FixIdle
    /\ RowIdle /\ CatIdle /\ GalIdle /\ RenIdle /\ BodyIdle /\ EscIdle
    /\ RomIdle
SpecFetchInit ==
    /\ FetchInit
    /\ DexIdle /\ StyleIdle /\ ThumbIdle /\ SrcIdle /\ MonIdle /\ FixIdle
    /\ RowIdle /\ CatIdle /\ GalIdle /\ RenIdle /\ BodyIdle /\ EscIdle
    /\ RomIdle
SpecMonInit ==
    /\ MonInit
    /\ DexIdle /\ StyleIdle /\ ThumbIdle /\ SrcIdle /\ RunIdle /\ FixIdle
    /\ RowIdle /\ CatIdle /\ GalIdle /\ RenIdle /\ BodyIdle /\ EscIdle
    /\ RomIdle
SpecFixInit ==
    /\ FixInit
    /\ DexIdle /\ StyleIdle /\ ThumbIdle /\ SrcIdle /\ RunIdle /\ MonIdle
    /\ RowIdle /\ CatIdle /\ GalIdle /\ RenIdle /\ BodyIdle /\ EscIdle
    /\ RomIdle
SpecRowInit ==
    /\ RowInit
    /\ DexIdle /\ StyleIdle /\ ThumbIdle /\ SrcIdle /\ RunIdle /\ MonIdle
    /\ FixIdle /\ CatIdle /\ GalIdle /\ RenIdle /\ BodyIdle /\ EscIdle
    /\ RomIdle
SpecCatInit ==
    /\ CatInit
    /\ DexIdle /\ StyleIdle /\ ThumbIdle /\ SrcIdle /\ RunIdle /\ MonIdle
    /\ FixIdle /\ RowIdle /\ GalIdle /\ RenIdle /\ BodyIdle /\ EscIdle
    /\ RomIdle
SpecGalInit ==
    /\ GalInit
    /\ DexIdle /\ StyleIdle /\ ThumbIdle /\ SrcIdle /\ RunIdle /\ MonIdle
    /\ FixIdle /\ RowIdle /\ CatIdle /\ RenIdle /\ BodyIdle /\ EscIdle
    /\ RomIdle
SpecRenInit ==
    /\ RenInit
    /\ DexIdle /\ StyleIdle /\ ThumbIdle /\ SrcIdle /\ RunIdle /\ MonIdle
    /\ FixIdle /\ RowIdle /\ CatIdle /\ GalIdle /\ BodyIdle /\ EscIdle
    /\ RomIdle
SpecBodyInit ==
    /\ BodyInit
    /\ DexIdle /\ StyleIdle /\ ThumbIdle /\ SrcIdle /\ RunIdle /\ MonIdle
    /\ FixIdle /\ RowIdle /\ CatIdle /\ GalIdle /\ RenIdle /\ EscIdle
    /\ RomIdle
SpecEscInit ==
    /\ EscInit
    /\ DexIdle /\ StyleIdle /\ ThumbIdle /\ SrcIdle /\ RunIdle /\ MonIdle
    /\ FixIdle /\ RowIdle /\ CatIdle /\ GalIdle /\ RenIdle /\ BodyIdle
    /\ RomIdle
SpecRomInit ==
    /\ RomInit
    /\ DexIdle /\ StyleIdle /\ ThumbIdle /\ SrcIdle /\ RunIdle /\ MonIdle
    /\ FixIdle /\ RowIdle /\ CatIdle /\ GalIdle /\ RenIdle /\ BodyIdle
    /\ EscIdle

SpecDex == SpecDexInit /\ [][DexNext]_vars
SpecStyle == SpecStyleInit /\ [][StyleNext]_vars
SpecThumb == SpecThumbInit /\ [][ThumbNext]_vars
SpecSrc == SpecSrcInit /\ [][SrcNext]_vars
SpecRun == SpecRunInit /\ [][RunNext]_vars
SpecFetch == SpecFetchInit /\ [][FetchNext]_vars
SpecMon == SpecMonInit /\ [][MonNext]_vars
SpecFix == SpecFixInit /\ [][FixNext]_vars
SpecRow == SpecRowInit /\ [][RowNext]_vars
SpecCat == SpecCatInit /\ [][CatNext]_vars
SpecGal == SpecGalInit /\ [][GalNext]_vars
SpecRen == SpecRenInit /\ [][RenNext]_vars
SpecBody == SpecBodyInit /\ [][BodyNext]_vars
SpecEsc == SpecEscInit /\ [][EscNext]_vars

\* the run with threads that are scheduled: a step of Fetcher::get that can
\* be taken is taken
RunFairness ==
    \A w \in Workers :
        /\ WF_vars(LockClient(w))
        /\ WF_vars(SendRequest(w))
        /\ WF_vars(FsWriteCreate(w))
        /\ WF_vars(FsWriteAll(w))
SpecRunFair == SpecRunInit /\ [][RunNext]_vars /\ RunFairness
SpecRom == SpecRomInit /\ [][RomNext]_vars

====
